---- MODULE Spec2Model ----
(***************************************************************************)
(* Model of the Docker containerizer process                               *)
(* (src/src/slave/containerizer/docker.cpp).                                *)
(*                                                                         *)
(* The process is a libprocess actor: every handler below runs to          *)
(* completion before the next one starts.  A continuation attached with    *)
(* .then(defer(self(), ...)) or .onAny(defer(self(), ...)) is a message to  *)
(* the actor, so it runs as a step of its own, some time after the future  *)
(* it hangs on has completed.  Continuations find their container through  *)
(* containers_[containerId], never through a pointer.                      *)
(***************************************************************************)
EXTENDS Integers, Sequences, FiniteSets, TLC

\* ---------------------------------------------------------------- bounds
\* Container records ever created, by launch and by recover.
MaxRecords == 2
\* The same, in behaviours that record cmds and last.
MaxObsRecords == 2
\* Executions of _recover.
MaxRecovers == 1
\* Teardown continuations pending at a time.
MaxDestroys == 2

\* Records a behaviour in which the agent calls update may create.
MaxUpdRecords == 1

\* docker inspect requests of update that may be in flight at once.
MaxUpdates == 1

\* docker inspect requests of usage that may be in flight at once.
MaxUsages == 1

\* Characters in a ContainerID value and in a slave id.
MaxIdLen == 3

\* The ContainerIDs, and those the agent names in behaviours that record cmds
\* and last.
Ids == {1, 2}
ObsIds == {1}

Rids == 1..MaxRecords
Chains == 1..MaxRecords
Toks == 1..MaxDestroys
Upds == 1..MaxUpdates
Uses == 1..MaxUsages

VARIABLES
  flags,        \* configuration: is docker_mesos_image set?
  containers_,  \* hashmap<ContainerID, Container*>: id -> record (0: absent)
  rec,          \* the Container objects, by record number
  owner,        \* ContainerID a record was created for (0: not yet created)
  status,       \* Container::status, the promise of the reap future
  reapFut,      \* the future returned by process::reap for a record's status
  termination,  \* Container::termination, with the number of completions
  chains,       \* one launch continuation chain per accepted launch call
  pullDiscard,  \* discard requested on the pull future of a chain
  dtoks,        \* the teardown continuations started by destroy
  rcb,          \* the reaped callback armed by recoverContainer, per record
  nRecover,     \* number of _recover executions so far
  aborted,      \* a CHECK failed: the process has aborted
  cmds,         \* commands issued to Docker, fetcher and OS in the last step
  last,         \* the handler executed in the last step and its result
  obs,          \* whether cmds and last are recorded in this behaviour
  updating,     \* whether the agent calls update in this behaviour
  updates,      \* the docker inspect requests of update that are in flight
  cgroup,       \* the cgroup control files of a record's container
  usages,       \* the docker inspect requests of usage that are in flight
  name,         \* the name of the Docker container handed to parse
  parsed,       \* what parse returned for it
  helper        \* the mesos-docker-executor forked by ___launch, per chain

vars == <<flags, containers_, rec, owner, status, reapFut, termination,
          chains, pullDiscard, dtoks, rcb, nRecover, aborted, cmds,
          last, obs, updating, updates, cgroup, usages, name, parsed,
          helper>>

\* ------------------------------------------------------------ data model
\* Container::state starts in FETCHING (spec section 3; the constructor is in
\* docker.hpp).
InitialState == "FETCHING"

StateRank(s) ==
  CASE s = "FETCHING" -> 1
    [] s = "PULLING" -> 2
    [] s = "RUNNING" -> 3
    [] s = "DESTROYING" -> 4
    [] OTHER -> 0

NoRec == [state |-> "NONE", run |-> "none", runBy |-> 0, pull |-> 0,
          executorPid |-> FALSE, resources |-> <<0, 0>>, pid |-> 0]

NoChain == [id |-> 0, rid |-> 0, kind |-> "none", pc |-> "unused",
            err |-> "", cb |-> 0]

NoTok == [id |-> 0, rid |-> 0, killed |-> FALSE, pc |-> "unused",
          reapRid |-> 0]

NoTermination == [state |-> "pending", killed |-> FALSE, message |-> <<>>,
                  sets |-> 0]

\* Resources as update and launch see them: <<cpus in thousandths of a CPU,
\* mem in megabytes>>, 0 for a resource that is not present.
NoResources == <<0, 0>>

\* The resources of the task or executor a modelled launch is given.
LaunchResources == <<1000, 64>>

\* The allocations the modelled agent hands to update: none of the supported
\* resources, both below their minimum, memory only, and the allocation of
\* the launch.
ResourceValues == {NoResources, <<1, 16>>, <<0, 128>>, LaunchResources}

\* CPU_SHARES_PER_CPU, MIN_CPU_SHARES and MIN_MEMORY (in megabytes).
CPU_SHARES_PER_CPU == 1024
MIN_CPU_SHARES == 10
MIN_MEMORY == 32

\* The control files of a container's cgroups as docker run leaves them for
\* LaunchResources: cpu.shares, memory.soft_limit_in_bytes (0: not set) and
\* memory.limit_in_bytes.
InitialCgroup ==
  [shares |-> (CPU_SHARES_PER_CPU * LaunchResources[1]) \div 1000,
   soft |-> 0, limit |-> LaunchResources[2]]

NoUpdate == [id |-> 0, resources |-> NoResources, pc |-> "unused"]

\* A docker inspect of usage in flight: the ContainerID usage was called with.
NoUsage == [id |-> 0, pc |-> "unused"]

\* The child of ___launch's subprocess(): where it is (in setup, exec'ed,
\* aborted, exited) and its stdin pipe as the parent left it (holding the
\* byte, closed).  Untracked in the behaviours that do not follow it.
NoHelper == [pc |-> "none", stdin |-> "none"]
Untracked == [k \in Chains |-> [pc |-> "untracked", stdin |-> "none"]]

UpdateVars == <<updating, updates, cgroup, usages, name, parsed, helper>>

NoOp == [op |-> "init", id |-> 0, res |-> "none", arg |-> <<>>]

Op(o, id, res) == [op |-> o, id |-> id, res |-> res, arg |-> <<>>]

\* The step issues the commands c / is handler o with result res.
Issue(c) == cmds' = IF obs THEN c ELSE {}
Did(o, id, res) == last' = IF obs THEN Op(o, id, res) ELSE NoOp

\* The same, for a call whose argument arg is recorded with it.
DidWith(o, id, res, arg) ==
  last' = IF obs THEN [Op(o, id, res) EXCEPT !.arg = arg] ELSE NoOp

\* containers_.contains(containerId)
contains(id) == containers_[id] # 0

\* The record registered under a ContainerID (containers_[containerId]).
Container(id) == rec[containers_[id]]

\* Future::isFailed() of Container::run.  run is "none" for the
\* default-constructed future, "pending", "ready" or "failed" for the future
\* of the docker run issued by launch chain runBy, and "failure" for the
\* Failure ___launch stores.
runIsFailed(r) == r.run \in {"failed", "failure"}

\* Container::run.failure()
runFailure(r) ==
  IF r.run = "failure" THEN "Failed to synchronize with child process"
  ELSE "docker run failed"

nextRid == Cardinality({r \in Rids : owner[r] # 0}) + 1

\* The number of records this behaviour may create.
recordBound ==
  IF updating THEN MaxUpdRecords
  ELSE IF obs THEN MaxObsRecords ELSE MaxRecords

\* The ContainerIDs the agent's calls name in this behaviour.
CallIds == IF obs THEN ObsIds ELSE Ids

nextChain == Cardinality({k \in Chains : chains[k].pc # "unused"}) + 1

\* ------------------------------------------------------------------ Init
Start ==
  /\ flags \in [docker_mesos_image : BOOLEAN]
  /\ containers_ = [i \in Ids |-> 0]
  /\ rec = [r \in Rids |-> NoRec]
  /\ owner = [r \in Rids |-> 0]
  /\ status = [r \in Rids |-> "pending"]
  /\ reapFut = [r \in Rids |-> "none"]
  /\ termination = [r \in Rids |-> NoTermination]
  /\ chains = [k \in Chains |-> NoChain]
  /\ pullDiscard = [k \in Chains |-> FALSE]
  /\ dtoks = [j \in Toks |-> NoTok]
  /\ rcb = [r \in Rids |-> "none"]
  /\ nRecover = 0
  /\ aborted = FALSE
  /\ cmds = {}
  /\ last = NoOp
  /\ updates = [u \in Upds |-> NoUpdate]
  /\ cgroup = [i \in Ids |-> InitialCgroup]
  /\ usages = [u \in Uses |-> NoUsage]
  /\ name = <<>>
  /\ parsed = <<>>
  /\ helper \in {Untracked, [k \in Chains |-> NoHelper]}

Init == Start /\ obs = FALSE /\ updating = FALSE /\ helper = Untracked


\* --------------------------------------------------------------- helpers
\* CHECK(...) failed: the process aborts.
Abort(o, id) ==
  /\ aborted' = TRUE
  /\ Issue({})
  /\ Did(o, id, "CHECK failed")
  /\ UNCHANGED <<obs, UpdateVars, flags, containers_, rec, owner, status,
                 reapFut, termination, chains, pullDiscard, dtoks, rcb,
                 nRecover>>

\* containers_.erase(containerId)
erase(id) == [containers_ EXCEPT ![id] = 0]

\* Promise::set / Promise::fail on Container::termination: only the first
\* completion takes effect; sets counts the calls.
complete(t, st, killed, msg) ==
  IF t.state = "pending"
  THEN [state |-> st, killed |-> killed, message |-> msg, sets |-> t.sets + 1]
  ELSE [t EXCEPT !.sets = @ + 1]

\* delete container: the record is gone, and with it its status promise, so
\* a _destroy continuation waiting for a status that was never set is dead.
deleteToks(rid) ==
  [j \in Toks |->
     IF dtoks[j].pc = "wait_status" /\ dtoks[j].rid = rid
        /\ status[rid] = "pending"
     THEN NoTok ELSE dtoks[j]]

\* The lowest free slot for a teardown continuation (0: none free).
freeTok ==
  IF \E j \in Toks : dtoks[j].pc = "unused"
  THEN CHOOSE j \in Toks : dtoks[j].pc = "unused"
                           /\ \A i \in Toks : i < j => dtoks[i].pc # "unused"
  ELSE 0

\* The termination is set, but the record stays registered.
setTerminationOnly(id, killed, msg) ==
  /\ termination' = [termination EXCEPT
                       ![containers_[id]] = complete(@, "set", killed, msg)]
  /\ UNCHANGED <<containers_, rec, dtoks>>

\* The three places of destroy that set the termination, erase the record
\* from containers_ and delete it.
setTerminationAndErase(id, killed, msg) ==
  LET rid == containers_[id] IN
  /\ termination' = [termination EXCEPT
                       ![rid] = complete(@, "set", killed, msg)]
  /\ containers_' = erase(id)
  /\ rec' = [rec EXCEPT ![rid] = NoRec]
  /\ dtoks' = deleteToks(rid)

\* ---------------------------------------------------------------- destroy
\* destroy takes every record for one whose teardown has not begun.
neverDestroying(container) == FALSE

\* container->state == Container::DESTROYING: a teardown is in progress.
isDestroying(container) == container.state = "DESTROYING"

\* DockerContainerizerProcess::destroy(containerId, killed), as called by the
\* agent, by reaped and by the onFailed handler of a launch chain.  Sets
\* containers_, rec, termination, dtoks, pullDiscard, aborted and cmds.
destroy(id, killed) ==
  IF ~contains(id)
  THEN /\ Issue({})
       /\ UNCHANGED <<containers_, rec, termination, dtoks, pullDiscard,
                      aborted>>
  ELSE
    LET rid == containers_[id]
        container == rec[rid]
    IN
    IF runIsFailed(container)
    THEN IF status[rid] # "pending"
         THEN \* CHECK_PENDING(container->status.future())
              /\ aborted' = TRUE
              /\ Issue({})
              /\ UNCHANGED <<containers_, rec, termination, dtoks,
                             pullDiscard>>
         ELSE /\ setTerminationAndErase(
                   id, killed,
                   <<"Failed to run container: ", runFailure(container)>>)
              /\ Issue({})
              /\ UNCHANGED <<pullDiscard, aborted>>
    ELSE IF isDestroying(container)
    THEN /\ Issue({})
         /\ UNCHANGED <<containers_, rec, termination, dtoks, pullDiscard,
                        aborted>>
    ELSE IF container.state = "FETCHING"
    THEN /\ Issue({<<"fetcher kill", id>>})
         /\ setTerminationAndErase(
              id, killed, <<"Container destroyed while fetching">>)
         /\ UNCHANGED <<pullDiscard, aborted>>
    ELSE IF container.state = "PULLING"
    THEN /\ Issue({<<"pull discard", id>>})
         /\ pullDiscard' = IF container.pull > 0
                           THEN [pullDiscard EXCEPT ![container.pull] = TRUE]
                           ELSE pullDiscard
         /\ setTerminationAndErase(
              id, killed, <<"Container destroyed while pulling image">>)
         /\ UNCHANGED aborted
    ELSE \* CHECK(container->state == Container::RUNNING)
         /\ freeTok # 0
         /\ Issue({<<"docker stop executor", id, 0>>}
                 \cup (IF container.executorPid
                       THEN {<<"killtree SIGTERM", id>>} ELSE {}))
         /\ rec' = [rec EXCEPT ![rid].state = "DESTROYING"]
         /\ dtoks' = [dtoks EXCEPT
                        ![freeTok] = [id |-> id, rid |-> rid,
                                      killed |-> killed,
                                      pc |-> "wait_status", reapRid |-> 0]]
         /\ UNCHANGED <<containers_, termination, pullDiscard, aborted>>

\* DockerContainerizer::destroy(containerId): the agent's call, killed = true.
destroyCall(id) ==
  /\ ~aborted
  /\ destroy(id, TRUE)
  /\ Did("destroy", id, "none")
  /\ UNCHANGED <<obs, UpdateVars, flags, owner, status, reapFut, chains, rcb,
                 nRecover>>


\* ----------------------------------------------------------------- launch
\* Variables no step of a launch chain touches.
LaunchFrame == <<obs, UpdateVars, flags, termination, pullDiscard, dtoks,
                 rcb, nRecover, aborted>>

\* A chain that has ended keeps its ContainerID and how it ended (and, after
\* it resolved true, the reap future its reaped callback hangs on).
ended(c) ==
  IF c.pc \in {"failed_done", "discarded"} \/ (c.pc = "done" /\ c.cb = -1)
  THEN [NoChain EXCEPT !.id = c.id, !.pc = c.pc, !.cb = c.cb]
  ELSE IF c.pc = "done"
  THEN [NoChain EXCEPT !.id = c.id, !.pc = c.pc, !.cb = c.cb, !.rid = c.rid]
  ELSE c

\* A stage of chain k returned a Failure (or the future it waited for
\* failed): the rest of the chain is skipped and its onFailed handler, a
\* destroy(containerId, true), is dispatched.
failChain(k, e) == [chains EXCEPT ![k].pc = "failed", ![k].err = e]

\* Both launch overloads after their checks: register the record created by
\* Container::create and start the fetch.
startLaunch(id, kind) ==
  /\ nextChain \in Chains
  /\ nextRid <= recordBound
  /\ containers_' = [containers_ EXCEPT ![id] = nextRid]
  /\ rec' = [rec EXCEPT ![nextRid] =
               [NoRec EXCEPT !.state = InitialState,
                             !.resources = LaunchResources]]
  /\ owner' = [owner EXCEPT ![nextRid] = id]
  /\ chains' = [chains EXCEPT ![nextChain] =
                  [id |-> id, rid |-> nextRid, kind |-> kind, pc |-> "fetch",
                   err |-> "", cb |-> 0]]
  /\ Issue({<<"sandbox", id>>, <<"fetch", id>>})
  /\ Did("launch", id, "pending")

\* The launch checks without the check for a registered ContainerID.
launchUnchecked(id, kind, ctype, create) ==
  /\ ~aborted
  /\ IF ctype # "DOCKER"
     THEN /\ Did("launch", id, "false")
          /\ Issue({})
          /\ UNCHANGED <<containers_, rec, owner, chains>>
     ELSE IF create # "ok"
     THEN /\ Did("launch", id, "failed: Failed to create container")
          /\ Issue({<<"sandbox", id>>})
          /\ UNCHANGED <<containers_, rec, owner, chains>>
     ELSE startLaunch(id, kind)
  /\ UNCHANGED <<status, reapFut>>
  /\ UNCHANGED LaunchFrame

\* The steps of Container::create that can fail: touch of stdout and of
\* stderr in the sandbox, chown of the sandbox to the user, creation of the
\* links directory, and the symlink from it to the sandbox.
SandboxSteps ==
  {"touch stdout", "touch stderr", "chown", "mkdir", "symlink"}

\* Container::create: an Error when one of its steps fails (each returns
\* before the Container is allocated), the new Container otherwise.
Container_create(failing) ==
  IF failing \in SandboxSteps THEN "failed" ELSE "ok"

\* The results Container::create can hand to launch.
CreateResults == {Container_create(f) : f \in SandboxSteps \cup {"none"}}

\* The launch checks with the result of Container::create not looked at.
launchCreateIgnored(id, kind, ctype, create) ==
  /\ ~aborted
  /\ IF contains(id)
     THEN /\ Did("launch", id, "failed: Container already started")
          /\ Issue({})
          /\ UNCHANGED <<containers_, rec, owner, chains>>
     ELSE IF ctype # "DOCKER"
     THEN /\ Did("launch", id, "false")
          /\ Issue({})
          /\ UNCHANGED <<containers_, rec, owner, chains>>
     ELSE startLaunch(id, kind)
  /\ UNCHANGED <<status, reapFut>>
  /\ UNCHANGED LaunchFrame

\* The launch checks with Container::create called before the container type
\* is looked at.
launchCreateFirst(id, kind, ctype, create) ==
  /\ ~aborted
  /\ IF contains(id)
     THEN /\ Did("launch", id, "failed: Container already started")
          /\ Issue({})
          /\ UNCHANGED <<containers_, rec, owner, chains>>
     ELSE IF create # "ok"
     THEN /\ Did("launch", id, "failed: Failed to create container")
          /\ Issue({<<"sandbox", id>>})
          /\ UNCHANGED <<containers_, rec, owner, chains>>
     ELSE IF ctype # "DOCKER"
     THEN /\ Did("launch", id, "false")
          /\ Issue({<<"sandbox", id>>})
          /\ UNCHANGED <<containers_, rec, owner, chains>>
     ELSE startLaunch(id, kind)
  /\ UNCHANGED <<status, reapFut>>
  /\ UNCHANGED LaunchFrame

\* The checks both launch overloads start with.  ctype is the container info
\* of the request: "none", "MESOS" or "DOCKER"; create is the outcome of
\* Container::create.  Every modelled launch asks for checkpointing; without
\* it the chain takes the same steps, except that no checkpoint can fail.
launchChecks(id, kind, ctype, create) ==
  /\ ~aborted
  /\ IF contains(id)
     THEN /\ Did("launch", id, "failed: Container already started")
          /\ Issue({})
          /\ UNCHANGED <<containers_, rec, owner, chains>>
     ELSE IF ctype # "DOCKER"
     THEN /\ Did("launch", id, "false")
          /\ Issue({})
          /\ UNCHANGED <<containers_, rec, owner, chains>>
     ELSE IF create # "ok"
     THEN /\ Did("launch", id, "failed: Failed to create container")
          /\ Issue({<<"sandbox", id>>})
          /\ UNCHANGED <<containers_, rec, owner, chains>>
     ELSE startLaunch(id, kind)
  /\ UNCHANGED <<status, reapFut>>
  /\ UNCHANGED LaunchFrame

\* DockerContainerizerProcess::launch(containerId, taskInfo, executorInfo, ...)
launch(id, ctype, create) ==
  launchChecks(id, IF flags.docker_mesos_image THEN "taskInContainer"
                   ELSE "task", ctype, create)

\* DockerContainerizerProcess::launch(containerId, executorInfo, ...)
launchExecutor(id, ctype, create) ==
  launchChecks(id, "executor", ctype, create)

\* fetch(containerId) completes; on success _launch(containerId) runs.
_launch(k, ok) ==
  LET id == chains[k].id IN
  /\ ~aborted
  /\ chains[k].pc = "fetch"
  /\ IF ~ok
     THEN /\ chains' = failChain(k, "fetch failed")
          /\ Issue({})
          /\ Did("fetch failed", id, "none")
          /\ UNCHANGED <<containers_, rec>>
     ELSE IF ~contains(id)
     THEN /\ chains' = failChain(k, "Container was destroyed while launching")
          /\ Issue({})
          /\ Did("_launch", id, "failed")
          /\ UNCHANGED <<containers_, rec>>
     ELSE /\ rec' = [rec EXCEPT ![containers_[id]].state = "PULLING",
                                ![containers_[id]].pull = k]
          /\ chains' = [chains EXCEPT ![k].pc = "pull"]
          /\ Issue({<<"docker pull", id>>})
          /\ Did("_launch", id, "none")
          /\ UNCHANGED containers_
  /\ UNCHANGED <<owner, status, reapFut>>
  /\ UNCHANGED LaunchFrame

\* The docker pull of chain k completes (ready, failed, or discarded after a
\* discard request); on success __launch(containerId) runs.
__launch(k, outcome) ==
  LET id == chains[k].id IN
  /\ ~aborted
  /\ chains[k].pc = "pull"
  /\ outcome = "discarded" => pullDiscard[k]
  /\ IF outcome = "discarded"
     THEN /\ chains' = [chains EXCEPT ![k] = ended([@ EXCEPT !.pc = "discarded"])]
          /\ Issue({})
          /\ Did("pull discarded", id, "none")
          /\ UNCHANGED <<containers_, rec>>
     ELSE IF outcome = "failed"
     THEN /\ chains' = failChain(k, "pull failed")
          /\ Issue({})
          /\ Did("pull failed", id, "none")
          /\ UNCHANGED <<containers_, rec>>
     ELSE IF ~contains(id)
     THEN /\ chains' = failChain(
                         k, "Container was destroyed while pulling image")
          /\ Issue({})
          /\ Did("__launch", id, "failed")
          /\ UNCHANGED <<containers_, rec>>
     ELSE /\ rec' = [rec EXCEPT ![containers_[id]].state = "RUNNING",
                                ![containers_[id]].run = "pending",
                                ![containers_[id]].runBy = k]
          /\ chains' = [chains EXCEPT ![k].pc = "run"]
          /\ Issue({<<"docker run", id>>})
          /\ Did("__launch", id, "none")
          /\ UNCHANGED containers_
  /\ UNCHANGED <<owner, status, reapFut>>
  /\ UNCHANGED LaunchFrame

\* The docker run issued by __launch of chain k completes.  Container::run of
\* the record that holds this future changes with it; on failure the chain
\* fails.
runDone(k, ok) ==
  /\ ~aborted
  /\ chains[k].pc = "run"
  /\ chains' = IF ok THEN [chains EXCEPT ![k].pc = "ran"]
               ELSE failChain(k, "docker run failed")
  /\ rec' = [r \in Rids |->
               IF rec[r].runBy = k /\ rec[r].run = "pending"
               THEN [rec[r] EXCEPT !.run = IF ok THEN "ready" ELSE "failed"]
               ELSE rec[r]]
  /\ Issue({})
  /\ Did(IF ok THEN "docker run ready" ELSE "docker run failed",
         chains[k].id, "none")
  /\ UNCHANGED <<containers_, owner, status, reapFut>>
  /\ UNCHANGED LaunchFrame


\* checkpoint(containerId, pid): stores the pid in Container::executorPid
\* before it writes the checkpoint file.
checkpoint(id) == [rec EXCEPT ![containers_[id]].executorPid = TRUE]

\* The outcomes of the fallible steps a launch stage takes.
stageOutcome(outcome, others) ==
  outcome \in others \cup {"ok", "checkpoint failed"}

\* subprocess(..., Subprocess::PIPE(), ..., setup) followed by what ___launch
\* does to the stdin of the child before it returns.
forkHelper(k, stdin) ==
  helper' = IF helper = Untracked THEN helper
            ELSE [helper EXCEPT ![k] = [pc |-> "setup", stdin |-> stdin]]

\* ___launch writing the byte before it checkpoints the pid.
___launchWriteFirst(k, outcome) ==
  LET id == chains[k].id IN
  /\ ~aborted
  /\ chains[k].pc = "ran"
  /\ chains[k].kind = "task"
  /\ stageOutcome(outcome, {"fork failed", "write failed"})
  /\ IF ~contains(id)
     THEN Abort("___launch", id)
     ELSE
       /\ CASE outcome = "fork failed" ->
                 /\ chains' = failChain(k, "Failed to fork executor")
                 /\ Issue({<<"subprocess", id>>})
                 /\ UNCHANGED <<rec, helper>>
            [] outcome = "checkpoint failed" ->
                 /\ chains' = failChain(
                                k, "Failed to checkpoint executor's pid")
                 /\ Issue({<<"subprocess", id>>, <<"checkpoint", id>>,
                             <<"write byte", id>>, <<"close stdin", id>>})
                 /\ rec' = checkpoint(id)
                 /\ forkHelper(k, "byte")
            [] outcome = "write failed" ->
                 /\ chains' = failChain(
                                k, "Failed to synchronize with child process")
                 /\ Issue({<<"subprocess", id>>, <<"checkpoint", id>>,
                             <<"close stdin", id>>})
                 /\ rec' = [checkpoint(id) EXCEPT ![containers_[id]].run = "failure",
                                              ![containers_[id]].runBy = 0]
                 /\ forkHelper(k, "closed")
            [] outcome = "ok" ->
                 /\ chains' = [chains EXCEPT ![k].pc = "logs"]
                 /\ Issue({<<"subprocess", id>>, <<"checkpoint", id>>,
                             <<"write byte", id>>})
                 /\ rec' = checkpoint(id)
                 /\ forkHelper(k, "byte")
       /\ Did("___launch", id, outcome)
       /\ UNCHANGED <<containers_, owner, status, reapFut>>
       /\ UNCHANGED <<obs, updating, updates, cgroup, usages, name, parsed,
                      flags, termination, pullDiscard, dtoks, rcb, nRecover,
                      aborted>>

\* ___launch(containerId): the task launch when docker_mesos_image is not
\* set.  Forks mesos-docker-executor, checkpoints its pid and writes the
\* handshake byte.
___launch(k, outcome) ==
  LET id == chains[k].id IN
  /\ ~aborted
  /\ chains[k].pc = "ran"
  /\ chains[k].kind = "task"
  /\ stageOutcome(outcome, {"fork failed", "write failed"})
  /\ IF ~contains(id)
     THEN Abort("___launch", id)
     ELSE
       /\ CASE outcome = "fork failed" ->
                 /\ chains' = failChain(k, "Failed to fork executor")
                 /\ Issue({<<"subprocess", id>>})
                 /\ UNCHANGED <<rec, helper>>
            [] outcome = "checkpoint failed" ->
                 /\ chains' = failChain(
                                k, "Failed to checkpoint executor's pid")
                 /\ Issue({<<"subprocess", id>>, <<"checkpoint", id>>,
                             <<"close stdin", id>>})
                 /\ rec' = checkpoint(id)
                 /\ forkHelper(k, "closed")
            [] outcome = "write failed" ->
                 /\ chains' = failChain(
                                k, "Failed to synchronize with child process")
                 /\ Issue({<<"subprocess", id>>, <<"checkpoint", id>>,
                             <<"close stdin", id>>})
                 /\ rec' = [checkpoint(id) EXCEPT ![containers_[id]].run = "failure",
                                              ![containers_[id]].runBy = 0]
                 /\ forkHelper(k, "closed")
            [] outcome = "ok" ->
                 /\ chains' = [chains EXCEPT ![k].pc = "logs"]
                 /\ Issue({<<"subprocess", id>>, <<"checkpoint", id>>,
                             <<"write byte", id>>})
                 /\ rec' = checkpoint(id)
                 /\ forkHelper(k, "byte")
       /\ Did("___launch", id, outcome)
       /\ UNCHANGED <<containers_, owner, status, reapFut>>
       /\ UNCHANGED <<obs, updating, updates, cgroup, usages, name, parsed,
                      flags, termination, pullDiscard, dtoks, rcb, nRecover,
                      aborted>>

\* setup(directory) in the child, up to the exec that follows its return:
\* setsid and chdir, then the read of one byte from stdin.  A failed setsid
\* or chdir returns errno and the child exits; a read that does not return
\* the byte ABORTs.
setup(k, outcome) ==
  /\ helper # Untracked
  /\ helper[k].pc = "setup"
  /\ helper' = [helper EXCEPT ![k] =
                  IF outcome # "ok" THEN [@ EXCEPT !.pc = "exited"]
                  ELSE IF @.stdin = "byte"
                  THEN [pc |-> "exec", stdin |-> "read"]
                  ELSE [@ EXCEPT !.pc = "aborted"]]
  /\ Issue({})
  /\ Did("setup", chains[k].id, outcome)
  /\ UNCHANGED <<obs, updating, updates, cgroup, usages, name, parsed, flags,
                 containers_, rec, owner, status, reapFut, termination,
                 chains, pullDiscard, dtoks, rcb, nRecover, aborted>>

\* ___launchInContainer(containerId): the task launch when docker_mesos_image
\* is set.  Issues the docker run of the executor container.
___launchInContainer(k) ==
  LET id == chains[k].id IN
  /\ ~aborted
  /\ chains[k].pc = "ran"
  /\ chains[k].kind = "taskInContainer"
  /\ IF ~contains(id) \/ ~flags.docker_mesos_image
     THEN Abort("___launchInContainer", id)
     ELSE /\ chains' = [chains EXCEPT ![k].pc = "runexec"]
          /\ Issue({<<"docker run executor", id>>})
          /\ Did("___launchInContainer", id, "none")
          /\ UNCHANGED <<containers_, rec, owner, status, reapFut>>
          /\ UNCHANGED LaunchFrame

\* The docker run of the executor container completes; on success
\* ____launchInContainer(containerId) spawns docker wait and checkpoints.
____launchInContainer(k, outcome) ==
  LET id == chains[k].id IN
  /\ ~aborted
  /\ chains[k].pc = "runexec"
  /\ stageOutcome(outcome, {"run failed", "wait failed"})
  /\ IF outcome = "run failed"
     THEN /\ chains' = failChain(k, "docker run executor failed")
          /\ Issue({})
          /\ Did("docker run executor failed", id, "none")
          /\ UNCHANGED <<containers_, rec, owner, status, reapFut>>
          /\ UNCHANGED LaunchFrame
     ELSE IF ~contains(id)
     THEN Abort("____launchInContainer", id)
     ELSE
       /\ CASE outcome = "wait failed" ->
                 /\ chains' = failChain(
                                k, "Unable to launch docker wait on executor")
                 /\ Issue({<<"docker wait", id>>})
                 /\ UNCHANGED rec
            [] outcome = "checkpoint failed" ->
                 /\ chains' = failChain(
                                k, "Failed to checkpoint executor's pid")
                 /\ Issue({<<"docker wait", id>>, <<"checkpoint", id>>})
                 /\ rec' = checkpoint(id)
            [] outcome = "ok" ->
                 /\ chains' = [chains EXCEPT ![k].pc = "logs"]
                 /\ Issue({<<"docker wait", id>>, <<"checkpoint", id>>})
                 /\ rec' = checkpoint(id)
       /\ Did("____launchInContainer", id, outcome)
       /\ UNCHANGED <<containers_, owner, status, reapFut>>
       /\ UNCHANGED LaunchFrame

\* ____launch(containerId): the executor launch issues docker inspect.
____launch(k) ==
  LET id == chains[k].id IN
  /\ ~aborted
  /\ chains[k].pc = "ran"
  /\ chains[k].kind = "executor"
  /\ IF ~contains(id)
     THEN Abort("____launch", id)
     ELSE /\ chains' = [chains EXCEPT ![k].pc = "inspect"]
          /\ Issue({<<"docker inspect", id>>})
          /\ Did("____launch", id, "none")
          /\ UNCHANGED <<containers_, rec, owner, status, reapFut>>
          /\ UNCHANGED LaunchFrame

\* The docker inspect of ____launch completes; on success
\* _____launch(containerId, container) checkpoints the container's pid.
_____launch(k, outcome) ==
  LET id == chains[k].id IN
  /\ ~aborted
  /\ chains[k].pc = "inspect"
  /\ stageOutcome(outcome, {"inspect failed", "no pid"})
  /\ IF outcome = "inspect failed"
     THEN /\ chains' = failChain(k, "docker inspect failed")
          /\ Issue({})
          /\ Did("docker inspect failed", id, "none")
          /\ UNCHANGED <<containers_, rec, owner, status, reapFut>>
          /\ UNCHANGED LaunchFrame
     ELSE IF ~contains(id)
     THEN Abort("_____launch", id)
     ELSE
       /\ CASE outcome = "no pid" ->
                 /\ chains' = failChain(
                                k, "Unable to get executor pid after launch")
                 /\ Issue({})
                 /\ UNCHANGED rec
            [] outcome = "checkpoint failed" ->
                 /\ chains' = failChain(
                                k, "Failed to checkpoint executor's pid")
                 /\ Issue({<<"checkpoint", id>>})
                 /\ rec' = checkpoint(id)
            [] outcome = "ok" ->
                 /\ chains' = [chains EXCEPT ![k].pc = "logs"]
                 /\ Issue({<<"checkpoint", id>>})
                 /\ rec' = checkpoint(id)
       /\ Did("_____launch", id, outcome)
       /\ UNCHANGED <<containers_, owner, status, reapFut>>
       /\ UNCHANGED LaunchFrame

\* ______launch(containerId, pid): starts docker logs.
______launch(k) ==
  LET id == chains[k].id IN
  /\ ~aborted
  /\ chains[k].pc = "logs"
  /\ IF ~contains(id)
     THEN Abort("______launch", id)
     ELSE /\ chains' = [chains EXCEPT ![k].pc = "reap"]
          /\ Issue({<<"docker logs", id>>})
          /\ Did("______launch", id, "none")
          /\ UNCHANGED <<containers_, rec, owner, status, reapFut>>
          /\ UNCHANGED LaunchFrame

\* _______launch(containerId, pid): sets Container::status to the reap of
\* the pid, arms reaped on that future, and resolves the launch with true.
\* Promise::set on a status that is already set changes nothing; the
\* callback then hangs on the reap future the status already holds.
_______launch(k) ==
  LET id == chains[k].id
      rid == containers_[id]
  IN
  /\ ~aborted
  /\ chains[k].pc = "reap"
  /\ IF ~contains(id)
     THEN Abort("_______launch", id)
     ELSE /\ status' = [status EXCEPT ![rid] = "set"]
          /\ reapFut' = IF status[rid] = "pending"
                        THEN [reapFut EXCEPT ![rid] = "pending"]
                        ELSE reapFut
          /\ chains' = [chains EXCEPT
                          ![k] = ended([@ EXCEPT !.pc = "done", !.cb = rid])]
          /\ Issue({<<"reap", id>>})
          /\ Did("_______launch", id, "true")
          /\ UNCHANGED <<containers_, rec, owner>>
          /\ UNCHANGED LaunchFrame

\* The reaped process exits: the reap future of record rid becomes ready.
reapExit(rid) ==
  /\ ~aborted
  /\ reapFut[rid] = "pending"
  /\ reapFut' = [reapFut EXCEPT ![rid] = "ready"]
  /\ Issue({})
  /\ Did("exit", owner[rid], "none")
  /\ UNCHANGED <<obs, UpdateVars, flags, containers_, rec, owner, status,
                 termination, chains, pullDiscard, dtoks, rcb, nRecover,
                 aborted>>

\* DockerContainerizerProcess::reaped(containerId)
reaped(id) ==
  IF ~contains(id)
  THEN /\ Issue({})
       /\ UNCHANGED <<containers_, rec, termination, dtoks, pullDiscard,
                      aborted>>
  ELSE destroy(id, FALSE)

\* The reaped callback armed by _______launch of chain k runs.
reapedLaunched(k) ==
  /\ ~aborted
  /\ chains[k].cb > 0
  /\ reapFut[chains[k].cb] = "ready"
  /\ reaped(chains[k].id)
  /\ chains' = [chains EXCEPT ![k] = ended([@ EXCEPT !.cb = -1])]
  /\ Did("reaped", chains[k].id, "none")
  /\ UNCHANGED <<obs, UpdateVars, flags, owner, status, reapFut, rcb,
                 nRecover>>

\* The onFailed handler of launch chain k runs: destroy(containerId, true).
onFailed(k) ==
  /\ ~aborted
  /\ chains[k].pc = "failed"
  /\ destroy(chains[k].id, TRUE)
  /\ chains' = [chains EXCEPT ![k] = ended([@ EXCEPT !.pc = "failed_done"])]
  /\ Did("onFailed", chains[k].id, "none")
  /\ UNCHANGED <<obs, UpdateVars, flags, owner, status, reapFut, rcb,
                 nRecover>>


\* --------------------------------------------------------------- teardown
TeardownFrame == <<obs, UpdateVars, flags, owner, status, reapFut, chains,
                   pullDiscard, rcb, nRecover, aborted>>

\* _destroy(containerId, killed): runs once the status awaited by destroy is
\* set; issues docker stop on the container.
_destroy(j) ==
  LET id == dtoks[j].id IN
  /\ ~aborted
  /\ dtoks[j].pc = "wait_status"
  /\ status[dtoks[j].rid] = "set"
  /\ IF ~contains(id) \/ Container(id).state # "DESTROYING"
     THEN Abort("_destroy", id)
     ELSE /\ dtoks' = [dtoks EXCEPT ![j].pc = "stopping"]
          /\ Issue({<<"docker stop", id, "docker_stop_timeout">>})
          /\ Did("_destroy", id, "none")
          /\ UNCHANGED <<containers_, rec, termination>>
          /\ UNCHANGED TeardownFrame

\* The docker stop of _destroy settles and __destroy(containerId, killed,
\* kill) runs.
__destroy(j, ok) ==
  LET id == dtoks[j].id
      rid == containers_[id]
  IN
  /\ ~aborted
  /\ dtoks[j].pc = "stopping"
  /\ IF ~contains(id)
     THEN Abort("__destroy", id)
     ELSE IF ~ok
     THEN /\ termination' =
               [termination EXCEPT
                  ![rid] = complete(@, "failed", dtoks[j].killed,
                                    <<"Failed to kill the Docker container: ",
                                      "docker stop failed">>)]
          /\ containers_' = erase(id)
          /\ rec' = [rec EXCEPT ![rid] = NoRec]
          /\ dtoks' = [deleteToks(rid) EXCEPT ![j] = NoTok]
          /\ Issue({<<"delay docker rm", id>>,
                      <<"delay docker rm executor", id>>})
          /\ Did("__destroy", id, "stop failed")
          /\ UNCHANGED TeardownFrame
     ELSE IF status[rid] # "set"
     THEN \* CHECK_READY(containers_[containerId]->status.future())
          Abort("__destroy", id)
     ELSE /\ dtoks' = [dtoks EXCEPT ![j].pc = "wait_reap", ![j].reapRid = rid]
          /\ Issue({})
          /\ Did("__destroy", id, "none")
          /\ UNCHANGED <<containers_, rec, termination>>
          /\ UNCHANGED TeardownFrame

\* ___destroy(containerId, killed, status): runs once the reap future has
\* completed; sets the termination and removes the record.
___destroy(j) ==
  LET id == dtoks[j].id
      rid == containers_[id]
  IN
  /\ ~aborted
  /\ dtoks[j].pc = "wait_reap"
  /\ reapFut[dtoks[j].reapRid] = "ready"
  /\ IF ~contains(id)
     THEN Abort("___destroy", id)
     ELSE /\ termination' =
               [termination EXCEPT
                  ![rid] = complete(@, "set", dtoks[j].killed,
                                    IF dtoks[j].killed
                                    THEN <<"Container killed">>
                                    ELSE <<"Container terminated">>)]
          /\ containers_' = erase(id)
          /\ rec' = [rec EXCEPT ![rid] = NoRec]
          /\ dtoks' = [deleteToks(rid) EXCEPT ![j] = NoTok]
          /\ Issue({<<"delay docker rm", id>>,
                      <<"delay docker rm executor", id>>})
          /\ Did("___destroy", id, "none")
          /\ UNCHANGED TeardownFrame

\* ------------------------------------------------------------------- wait
\* wait without the test for a registered ContainerID.
waitUnchecked(id) ==
  /\ ~aborted
  /\ DidWith("wait", id, "future", <<containers_[id]>>)
  /\ Issue({})
  /\ UNCHANGED <<obs, UpdateVars, flags, containers_, rec, owner, status,
                 reapFut, termination, chains, pullDiscard, dtoks, rcb,
                 nRecover, aborted>>

\* DockerContainerizerProcess::wait(containerId).  The future returned is
\* recorded as the number of the record whose termination promise it is the
\* future of.
wait(id) ==
  /\ ~aborted
  /\ IF ~contains(id)
     THEN Did("wait", id, "failed: Unknown container")
     ELSE DidWith("wait", id, "future", <<containers_[id]>>)
  /\ Issue({})
  /\ UNCHANGED <<obs, UpdateVars, flags, containers_, rec, owner, status,
                 reapFut, termination, chains, pullDiscard, dtoks, rcb,
                 nRecover, aborted>>

\* ----------------------------------------------------------------- update
\* The ways the environment can answer __update (the Linux build): one
\* failing or missing piece per scenario.
UpdateOutcomes ==
  {"ok", "cpu hierarchy error", "memory hierarchy error",
   "cpu cgroup error", "no cpu cgroup", "cpu.shares write fails",
   "memory cgroup error", "no memory cgroup", "soft limit write fails",
   "limit read fails", "limit write fails"}

Max(a, b) == IF a >= b THEN a ELSE b

\* (uint64_t) (CPU_SHARES_PER_CPU * cpus), floored at MIN_CPU_SHARES.
cpuShares(resources) ==
  Max((CPU_SHARES_PER_CPU * resources[1]) \div 1000, MIN_CPU_SHARES)

\* std::max(mem, MIN_MEMORY)
memoryLimit(resources) == Max(resources[2], MIN_MEMORY)

\* What __update hands back: the control files, the writes attempted and the
\* result.
Updated(cg, writes, res) == [cg |-> cg, writes |-> writes, res |-> res]

\* The memory part of __update with every write to memory.limit_in_bytes
\* made, also when the limit would go down.
memoryUpdateAlways(cg, id, resources, e, writes) ==
  LET limit == memoryLimit(resources)
      soft == [cg EXCEPT !.soft = limit]
      w == writes \cup {<<"write memory.soft_limit_in_bytes", id, limit>>}
  IN
  IF e = "memory cgroup error"
  THEN Updated(cg, writes, "failed: memory cgroup")
  ELSE IF e = "no memory cgroup" \/ resources[2] = 0
  THEN Updated(cg, writes, "Nothing")
  ELSE IF e = "soft limit write fails"
  THEN Updated(cg, w, "failed: memory.soft_limit_in_bytes")
  ELSE IF e = "limit read fails"
  THEN Updated(soft, w, "failed: read memory.limit_in_bytes")
  ELSE IF e = "limit write fails"
  THEN Updated(soft, w \cup {<<"write memory.limit_in_bytes", id, limit>>},
               "failed: memory.limit_in_bytes")
  ELSE Updated([soft EXCEPT !.limit = limit],
               w \cup {<<"write memory.limit_in_bytes", id, limit>>},
               "Nothing")

\* The memory part of __update: the soft limit is always written, the hard
\* limit only when the new limit is above the one read.
memoryUpdate(cg, id, resources, e, writes) ==
  LET limit == memoryLimit(resources)
      soft == [cg EXCEPT !.soft = limit]
      w == writes \cup {<<"write memory.soft_limit_in_bytes", id, limit>>}
  IN
  IF e = "memory cgroup error"
  THEN Updated(cg, writes, "failed: memory cgroup")
  ELSE IF e = "no memory cgroup" \/ resources[2] = 0
  THEN Updated(cg, writes, "Nothing")
  ELSE IF e = "soft limit write fails"
  THEN Updated(cg, w, "failed: memory.soft_limit_in_bytes")
  ELSE IF e = "limit read fails"
  THEN Updated(soft, w, "failed: read memory.limit_in_bytes")
  ELSE IF limit > cg.limit
  THEN IF e = "limit write fails"
       THEN Updated(soft,
                    w \cup {<<"write memory.limit_in_bytes", id, limit>>},
                    "failed: memory.limit_in_bytes")
       ELSE Updated([soft EXCEPT !.limit = limit],
                    w \cup {<<"write memory.limit_in_bytes", id, limit>>},
                    "Nothing")
  ELSE Updated(soft, w, "Nothing")

\* The same as __update below, with the memory subsystem skipped as well
\* when the pid is in no cpu cgroup.
__updateSkipsBoth(cg, id, resources, e) ==
  LET shares == cpuShares(resources)
      w == {<<"write cpu.shares", id, shares>>}
  IN
  IF e = "cpu hierarchy error"
  THEN Updated(cg, {}, "failed: cpu hierarchy")
  ELSE IF e = "memory hierarchy error"
  THEN Updated(cg, {}, "failed: memory hierarchy")
  ELSE IF e = "cpu cgroup error"
  THEN Updated(cg, {}, "failed: cpu cgroup")
  ELSE IF e = "no cpu cgroup"
  THEN Updated(cg, {}, "Nothing")
  ELSE IF resources[1] = 0
  THEN memoryUpdate(cg, id, resources, e, {})
  ELSE IF e = "cpu.shares write fails"
  THEN Updated(cg, w, "failed: cpu.shares")
  ELSE memoryUpdate([cg EXCEPT !.shares = shares], id, resources, e, w)

\* __update(containerId, resources, pid) on the control files cg of the
\* cgroups pid is in, answered by the environment as e.  The hierarchies are
\* looked up once per process (static); a scenario with a hierarchy error
\* stands for a process in which that lookup failed.
__update(cg, id, resources, e) ==
  LET shares == cpuShares(resources)
      w == {<<"write cpu.shares", id, shares>>}
  IN
  IF e = "cpu hierarchy error"
  THEN Updated(cg, {}, "failed: cpu hierarchy")
  ELSE IF e = "memory hierarchy error"
  THEN Updated(cg, {}, "failed: memory hierarchy")
  ELSE IF e = "cpu cgroup error"
  THEN Updated(cg, {}, "failed: cpu cgroup")
  ELSE IF e = "no cpu cgroup" \/ resources[1] = 0
  THEN memoryUpdate(cg, id, resources, e, {})
  ELSE IF e = "cpu.shares write fails"
  THEN Updated(cg, w, "failed: cpu.shares")
  ELSE memoryUpdate([cg EXCEPT !.shares = shares], id, resources, e, w)

\* The first free slot for a docker inspect of update (0: none).
freeUpd ==
  IF \E u \in Upds : updates[u].pc = "unused"
  THEN CHOOSE u \in Upds :
         updates[u].pc = "unused"
         /\ \A v \in Upds : updates[v].pc = "unused" => u <= v
  ELSE 0

\* The same as applyUpdate below, with the resources not stored in the
\* record.
applyUpdateNoStore(id, resources, e) ==
  LET rid == containers_[id]
      u == __update(cgroup[id], id, resources, e)
  IN
  /\ rec' = rec
  /\ IF flags.docker_mesos_image \/ resources = NoResources
     THEN /\ Issue({})
          /\ DidWith("update", id, "Nothing", resources)
          /\ UNCHANGED <<updates, cgroup>>
     ELSE IF rec[rid].pid # 0
     THEN /\ cgroup' = [cgroup EXCEPT ![id] = u.cg]
          /\ Issue(u.writes)
          /\ DidWith("update", id, u.res, resources)
          /\ UNCHANGED updates
     ELSE /\ freeUpd # 0
          /\ updates' = [updates EXCEPT
                           ![freeUpd] = [id |-> id, resources |-> resources,
                                         pc |-> "inspect"]]
          /\ Issue({<<"docker inspect", id>>})
          /\ DidWith("update", id, "pending", resources)
          /\ UNCHANGED cgroup

\* The same as applyUpdate below, without the test for docker_mesos_image.
applyUpdateNested(id, resources, e) ==
  LET rid == containers_[id]
      u == __update(cgroup[id], id, resources, e)
  IN
  /\ rec' = [rec EXCEPT ![rid].resources = resources]
  /\ IF resources = NoResources
     THEN /\ Issue({})
          /\ DidWith("update", id, "Nothing", resources)
          /\ UNCHANGED <<updates, cgroup>>
     ELSE IF rec[rid].pid # 0
     THEN /\ cgroup' = [cgroup EXCEPT ![id] = u.cg]
          /\ Issue(u.writes)
          /\ DidWith("update", id, u.res, resources)
          /\ UNCHANGED updates
     ELSE /\ freeUpd # 0
          /\ updates' = [updates EXCEPT
                           ![freeUpd] = [id |-> id, resources |-> resources,
                                         pc |-> "inspect"]]
          /\ Issue({<<"docker inspect", id>>})
          /\ DidWith("update", id, "pending", resources)
          /\ UNCHANGED cgroup

\* The same as applyUpdate below, with the resources stored only by an
\* __update that has succeeded.
applyUpdateStoreApplied(id, resources, e) ==
  LET rid == containers_[id]
      u == __update(cgroup[id], id, resources, e)
  IN
  IF flags.docker_mesos_image \/ resources = NoResources
  THEN /\ Issue({})
       /\ DidWith("update", id, "Nothing", resources)
       /\ UNCHANGED <<rec, updates, cgroup>>
  ELSE IF rec[rid].pid # 0
  THEN /\ cgroup' = [cgroup EXCEPT ![id] = u.cg]
       /\ rec' = IF u.res = "Nothing"
                 THEN [rec EXCEPT ![rid].resources = resources] ELSE rec
       /\ Issue(u.writes)
       /\ DidWith("update", id, u.res, resources)
       /\ UNCHANGED updates
  ELSE /\ freeUpd # 0
       /\ updates' = [updates EXCEPT
                        ![freeUpd] = [id |-> id, resources |-> resources,
                                      pc |-> "inspect"]]
       /\ Issue({<<"docker inspect", id>>})
       /\ DidWith("update", id, "pending", resources)
       /\ UNCHANGED <<rec, cgroup>>

\* update of a registered container that is not being destroyed, with
\* resources that differ from the ones it has: the resources are stored;
\* then nothing more under docker_mesos_image or without cpus and mem,
\* __update at once when the pid is known, docker inspect otherwise.
applyUpdate(id, resources, e) ==
  LET rid == containers_[id]
      u == __update(cgroup[id], id, resources, e)
  IN
  /\ rec' = [rec EXCEPT ![rid].resources = resources]
  /\ IF flags.docker_mesos_image \/ resources = NoResources
     THEN /\ Issue({})
          /\ DidWith("update", id, "Nothing", resources)
          /\ UNCHANGED <<updates, cgroup>>
     ELSE IF rec[rid].pid # 0
     THEN /\ cgroup' = [cgroup EXCEPT ![id] = u.cg]
          /\ Issue(u.writes)
          /\ DidWith("update", id, u.res, resources)
          /\ UNCHANGED updates
     ELSE /\ freeUpd # 0
          /\ updates' = [updates EXCEPT
                           ![freeUpd] = [id |-> id, resources |-> resources,
                                         pc |-> "inspect"]]
          /\ Issue({<<"docker inspect", id>>})
          /\ DidWith("update", id, "pending", resources)
          /\ UNCHANGED cgroup

\* update without the test for identical resources.
updateAnyway(id, resources, e) ==
  /\ ~aborted
  /\ IF ~contains(id) \/ Container(id).state = "DESTROYING"
     THEN /\ Issue({})
          /\ DidWith("update", id, "Nothing", resources)
          /\ UNCHANGED <<rec, updates, cgroup>>
     ELSE applyUpdate(id, resources, e)
  /\ UNCHANGED <<obs, updating, usages, name, parsed, helper, flags,
                 containers_,
                 owner, status,
                 reapFut, termination, chains, pullDiscard, dtoks, rcb,
                 nRecover, aborted>>

\* DockerContainerizerProcess::update(containerId, resources)
update(id, resources, e) ==
  /\ ~aborted
  /\ IF \/ ~contains(id)
        \/ Container(id).state = "DESTROYING"
        \/ Container(id).resources = resources
     THEN /\ Issue({})
          /\ DidWith("update", id, "Nothing", resources)
          /\ UNCHANGED <<rec, updates, cgroup>>
     ELSE applyUpdate(id, resources, e)
  /\ UNCHANGED <<obs, updating, usages, name, parsed, helper, flags,
                 containers_,
                 owner, status,
                 reapFut, termination, chains, pullDiscard, dtoks, rcb,
                 nRecover, aborted>>

\* The same as _update below, with the stored resources dropped when the
\* docker inspect fails.
_updateRollsBack(u, inspect, e) ==
  LET id == updates[u].id
      resources == updates[u].resources
      up == __update(cgroup[id], id, resources, e)
  IN
  /\ ~aborted
  /\ updates[u].pc = "inspect"
  /\ updates' = [updates EXCEPT ![u] = NoUpdate]
  /\ IF inspect = "failed"
     THEN /\ Issue({})
          /\ DidWith("docker inspect failed", id, "failed: docker inspect",
                     resources)
          /\ rec' = IF contains(id)
                    THEN [rec EXCEPT ![containers_[id]].resources = NoResources]
                    ELSE rec
          /\ UNCHANGED cgroup
     ELSE IF inspect = "no pid" \/ ~contains(id)
     THEN /\ Issue({})
          /\ DidWith("_update", id, "Nothing", resources)
          /\ UNCHANGED <<rec, cgroup>>
     ELSE /\ rec' = [rec EXCEPT ![containers_[id]].pid = 1]
          /\ cgroup' = [cgroup EXCEPT ![id] = up.cg]
          /\ Issue(up.writes)
          /\ DidWith("_update", id, up.res, resources)
  /\ UNCHANGED <<obs, updating, usages, name, parsed, helper, flags,
                 containers_,
                 owner, status,
                 reapFut, termination, chains, pullDiscard, dtoks, rcb,
                 nRecover, aborted>>

\* The docker inspect of update slot u completes: failed (the update fails
\* and _update does not run), or with a container that has no pid or a pid,
\* and then _update(containerId, resources, container) runs.
_update(u, inspect, e) ==
  LET id == updates[u].id
      resources == updates[u].resources
      up == __update(cgroup[id], id, resources, e)
  IN
  /\ ~aborted
  /\ updates[u].pc = "inspect"
  /\ updates' = [updates EXCEPT ![u] = NoUpdate]
  /\ IF inspect = "failed"
     THEN /\ Issue({})
          /\ DidWith("docker inspect failed", id, "failed: docker inspect",
                     resources)
          /\ UNCHANGED <<rec, cgroup>>
     ELSE IF inspect = "no pid" \/ ~contains(id)
     THEN /\ Issue({})
          /\ DidWith("_update", id, "Nothing", resources)
          /\ UNCHANGED <<rec, cgroup>>
     ELSE /\ rec' = [rec EXCEPT ![containers_[id]].pid = 1]
          /\ cgroup' = [cgroup EXCEPT ![id] = up.cg]
          /\ Issue(up.writes)
          /\ DidWith("_update", id, up.res, resources)
  /\ UNCHANGED <<obs, updating, usages, name, parsed, helper, flags,
                 containers_,
                 owner, status,
                 reapFut, termination, chains, pullDiscard, dtoks, rcb,
                 nRecover, aborted>>

\* ------------------------------------------------------------- name codec
\* Strings are sequences of characters.  DOCKER_NAME_PREFIX and
\* DOCKER_NAME_SEPERATOR:
DOCKER_NAME_PREFIX == <<"m", "e", "s", "o", "s", "-">>
DOCKER_NAME_SEPERATOR == "."

\* strings::startsWith(str, prefix)
startsWith(str, prefix) ==
  Len(str) >= Len(prefix) /\ SubSeq(str, 1, Len(prefix)) = prefix

\* strings::split(str, sep) for a separator of one character: the tokens
\* between the separators, empty ones included.
RECURSIVE split(_, _)
split(str, sep) ==
  IF \A k \in 1..Len(str) : str[k] # sep THEN <<str>>
  ELSE LET k == CHOOSE k \in 1..Len(str) :
                  str[k] = sep /\ \A j \in 1..(k - 1) : str[j] # sep
       IN <<SubSeq(str, 1, k - 1)>>
            \o split(SubSeq(str, k + 1, Len(str)), sep)

\* parse(container) on container.name.  An Option is a sequence: <<>> for
\* None, <<v>> for a value v.  parts[1] of the code (0-based) is parts[2]
\* here.
parse(str) ==
  LET slashed == <<"/">> \o DOCKER_NAME_PREFIX
      n == IF startsWith(str, DOCKER_NAME_PREFIX)
           THEN <<SubSeq(str, Len(DOCKER_NAME_PREFIX) + 1, Len(str))>>
           ELSE IF startsWith(str, slashed)
           THEN <<SubSeq(str, Len(slashed) + 1, Len(str))>>
           ELSE <<>>
  IN
  IF n = <<>> THEN <<>>
  ELSE IF \A k \in 1..Len(n[1]) : n[1][k] # DOCKER_NAME_SEPERATOR
  THEN <<n[1]>>
  ELSE LET parts == split(n[1], DOCKER_NAME_SEPERATOR) IN
       IF Len(parts) \in {2, 3} THEN <<parts[2]>> ELSE <<>>

\* The modelled ContainerID values and slave ids: the strings of a letter
\* and the separator character.
IdValues ==
  UNION {[1..n -> {"a", DOCKER_NAME_SEPERATOR}] : n \in 1..MaxIdLen}

\* The names the containerizer gives to Docker containers: of the container
\* (DOCKER_NAME_PREFIX + slaveId + DOCKER_NAME_SEPERATOR + containerId), of
\* its executor container (the same with ".executor" appended) and, before
\* 0.23.0, DOCKER_NAME_PREFIX + containerId.
containerName(slaveId, id) ==
  DOCKER_NAME_PREFIX \o slaveId \o <<DOCKER_NAME_SEPERATOR>> \o id

executorName(slaveId, id) ==
  containerName(slaveId, id)
    \o <<".", "e", "x", "e", "c", "u", "t", "o", "r">>

legacyName(id) == DOCKER_NAME_PREFIX \o id

\* strings::contains(str, sub)
containsStr(str, sub) ==
  \E k \in 1..(Len(str) - Len(sub) + 1) :
    SubSeq(str, k, k + Len(sub) - 1) = sub

\* The names docker ps can list for them: as they are, or with the leading
\* slash.
Names ==
  LET plain == {containerName(s, i) : s \in IdValues, i \in IdValues}
                 \cup {executorName(s, i) : s \in IdValues, i \in IdValues}
                 \cup {legacyName(i) : i \in IdValues}
  IN plain \cup {<<"/">> \o n : n \in plain}

\* parse is applied to the name of a listed container.
Parse(n) ==
  /\ name' = n
  /\ parsed' = parse(n)
  /\ UNCHANGED <<flags, containers_, rec, owner, status, reapFut,
                 termination, chains, pullDiscard, dtoks, rcb, nRecover,
                 aborted, cmds, last, obs, updating, updates, cgroup, usages,
                 helper>>

NextCodec == \E n \in Names : Parse(n)

\* -------------------------------------------------------- http validation
\* The values of the Accept header and of the Connection header of the
\* modelled requests.
AcceptValues == {"application/json", "application/x-protobuf", "foo", "*/*",
                 "application/json;q=0.5", ""}

ConnectionValues == {"close", "keep-alive", "foo", "Close", ""}

\* The media types the validators name.
MediaTypes == {"application/json", "application/x-protobuf"}

\* The modelled requests: the headers sent (each of Accept and Connection
\* sent or not) and, for a request with an Accept header, the media types
\* Request::acceptsMediaType answers true for.
Requests ==
  LET Headers == UNION {[hs -> AcceptValues \cup ConnectionValues] :
                          hs \in SUBSET {"Accept", "Connection"}}
  IN {[headers |-> h, accepts |-> a] :
        h \in {g \in Headers :
                 /\ "Accept" \in DOMAIN g => g["Accept"] \in AcceptValues
                 /\ "Connection" \in DOMAIN g
                    => g["Connection"] \in ConnectionValues},
        a \in SUBSET MediaTypes}

\* request.headers.get(key): an Option, <<>> for None and <<v>> for Some(v).
get(headers, key) == IF key \in DOMAIN headers THEN <<headers[key]>> ELSE <<>>

\* Option::isNone
isNone(option) == option = <<>>

\* A process::http::Response of the validators: its status and its body, and
\* None() for no response.
Response(code, body) == [status |-> code, body |-> body]

NoResponse == Response("None", <<>>)

\* The same as validate below, with the value of the Connection header
\* tested before the value of the Accept header.
validateConnectionFirst(request) ==
  LET accept == get(request.headers, "Accept")
      connection == get(request.headers, "Connection")
  IN
  IF isNone(accept)
  THEN Response("BadRequest", <<"Missing Accept header">>)
  ELSE IF isNone(connection)
  THEN Response("BadRequest", <<"Missing Connection header">>)
  ELSE IF connection[1] # "close"
  THEN Response("UnsupportedMediaType",
                <<"Unsupported '", connection[1],
                  "' Connection header; Expecting close">>)
  ELSE IF accept[1] # "application/json"
          /\ accept[1] # "application/x-protobuf"
  THEN Response("NotAcceptable",
                <<"Unsupported Accept: '", accept[1],
                  "'; Expecting one of (application/x-protobuf",
                  ", application/json)">>)
  ELSE NoResponse

\* validation::http::validate(request)
validate(request) ==
  LET accept == get(request.headers, "Accept")
      connection == get(request.headers, "Connection")
  IN
  IF isNone(accept)
  THEN Response("BadRequest", <<"Missing Accept header">>)
  ELSE IF isNone(connection)
  THEN Response("BadRequest", <<"Missing Connection header">>)
  ELSE IF accept[1] # "application/json"
          /\ accept[1] # "application/x-protobuf"
  THEN Response("NotAcceptable",
                <<"Unsupported Accept: '", accept[1],
                  "'; Expecting one of (application/x-protobuf",
                  ", application/json)">>)
  ELSE IF connection[1] # "close"
  THEN Response("UnsupportedMediaType",
                <<"Unsupported '", connection[1],
                  "' Connection header; Expecting close">>)
  ELSE NoResponse

\* request.acceptsMediaType(mediaType) as header::validate reads it: None
\* for a request without an Accept header, else whether the request accepts
\* the media type.
acceptsMediaType(request, mediaType) ==
  IF "Accept" \in DOMAIN request.headers
  THEN <<mediaType \in request.accepts>>
  ELSE <<>>

\* validation::http::header::validate(request)
header_validate(request) ==
  LET connection == get(request.headers, "Connection")
  IN
  IF isNone(acceptsMediaType(request, ""))
  THEN Response("BadRequest", <<"Missing Accept header">>)
  ELSE IF isNone(connection)
  THEN Response("BadRequest", <<"Missing Connection header">>)
  ELSE IF ~acceptsMediaType(request, "application/json")[1]
          /\ ~acceptsMediaType(request, "application/x-protobuf")[1]
  THEN Response("NotAcceptable",
                <<"Unsupported Accept: '", get(request.headers, "Accept")[1],
                  "'; Expecting one of (application/x-protobuf",
                  ", application/json)">>)
  ELSE IF connection[1] # "close"
  THEN Response("UnsupportedMediaType",
                <<"Unsupported '", connection[1],
                  "' Connection header; Expecting close">>)
  ELSE NoResponse

\* What a validation leaves alone: the containerizer.
HttpFrame == <<flags, containers_, rec, owner, status, reapFut, termination,
               chains, pullDiscard, dtoks, rcb, nRecover, aborted, cmds, obs,
               updating, updates, cgroup, usages, name, parsed, helper>>

\* The call endpoint validates the headers of a request.
validateCall(request) ==
  /\ DidWith("validate", 0, validate(request).status,
             <<request, validate(request)>>)
  /\ UNCHANGED HttpFrame

headerValidateCall(request) ==
  /\ DidWith("header::validate", 0, header_validate(request).status,
             <<request, header_validate(request)>>)
  /\ UNCHANGED HttpFrame

NextHttp ==
  \/ \E request \in Requests : validateCall(request)
  \/ \E request \in Requests : headerValidateCall(request)

\* ------------------------------------------------------------------ usage
\* What usage leaves alone: everything but the cached pid of a record, the
\* docker inspect requests of usage, cmds and last.
UsageFrame == <<obs, updating, updates, cgroup, name, parsed, helper,
                flags, containers_, owner, status, reapFut, termination, chains, pullDiscard, dtoks,
                rcb, nRecover, aborted>>

\* The limits __usage attaches to the statistics: cpus_limit (in thousandths
\* of a CPU) and mem_limit_bytes, each 0 when the resources do not name it
\* and the field stays unset.
limits(resources) == <<resources[1], resources[2] * 1048576>>

\* __usage(containerId, pid): the probe of the pid, and on its success the
\* limits of the resources of the record registered under the ContainerID.
\* o names the handler that returns what __usage returns.
__usage(o, id, probe) ==
  /\ Issue({<<"usage probe", id>>})
  /\ IF probe = "failed"
     THEN DidWith(o, id, "failed: usage probe", <<>>)
     ELSE DidWith(o, id, "statistics", limits(Container(id).resources))

\* DockerContainerizerProcess::usage(containerId) (the Linux build).
usage(id, probe) ==
  /\ ~aborted
  /\ IF ~contains(id)
     THEN /\ Issue({})
          /\ DidWith("usage", id, "failed: Unknown container", <<>>)
          /\ UNCHANGED usages
     ELSE IF Container(id).state = "DESTROYING"
     THEN /\ Issue({})
          /\ DidWith("usage", id, "failed: Container is being removed", <<>>)
          /\ UNCHANGED usages
     ELSE IF flags.docker_mesos_image
     THEN /\ Issue({})
          /\ DidWith("usage", id, "empty statistics", <<>>)
          /\ UNCHANGED usages
     ELSE IF Container(id).pid # 0
     THEN /\ __usage("usage", id, probe)
          /\ UNCHANGED usages
     ELSE /\ \E u \in Uses : usages[u].pc = "unused"
          /\ usages' = [usages EXCEPT
                          ![CHOOSE u \in Uses : usages[u].pc = "unused"] =
                            [id |-> id, pc |-> "inspect"]]
          /\ Issue({<<"docker inspect", id>>})
          /\ DidWith("usage", id, "pending", <<>>)
  /\ UNCHANGED rec
  /\ UNCHANGED UsageFrame

\* _usage without its test for a container in DESTROYING.
_usageNoDestroyingTest(u, inspect, probe) ==
  LET id == usages[u].id IN
  /\ ~aborted
  /\ usages[u].pc = "inspect"
  /\ usages' = [usages EXCEPT ![u] = NoUsage]
  /\ IF inspect = "failed"
     THEN /\ Issue({})
          /\ DidWith("docker inspect failed", id, "failed: docker inspect",
                     <<>>)
          /\ UNCHANGED rec
     ELSE IF ~contains(id)
     THEN /\ Issue({})
          /\ DidWith("_usage", id, "failed: Container has been destroyed",
                     <<>>)
          /\ UNCHANGED rec
     ELSE IF inspect = "no pid"
     THEN /\ Issue({})
          /\ DidWith("_usage", id, "failed: Container is not running", <<>>)
          /\ UNCHANGED rec
     ELSE /\ rec' = [rec EXCEPT ![containers_[id]].pid = 1]
          /\ __usage("_usage", id, probe)
  /\ UNCHANGED UsageFrame

\* The docker inspect of usage slot u completes: failed (usage fails and
\* _usage does not run), or with a container that has no pid or a pid, and
\* then _usage(containerId, container) runs.
_usage(u, inspect, probe) ==
  LET id == usages[u].id IN
  /\ ~aborted
  /\ usages[u].pc = "inspect"
  /\ usages' = [usages EXCEPT ![u] = NoUsage]
  /\ IF inspect = "failed"
     THEN /\ Issue({})
          /\ DidWith("docker inspect failed", id, "failed: docker inspect",
                     <<>>)
          /\ UNCHANGED rec
     ELSE IF ~contains(id)
     THEN /\ Issue({})
          /\ DidWith("_usage", id, "failed: Container has been destroyed",
                     <<>>)
          /\ UNCHANGED rec
     ELSE IF Container(id).state = "DESTROYING"
     THEN /\ Issue({})
          /\ DidWith("_usage", id, "failed: Container is being removed", <<>>)
          /\ UNCHANGED rec
     ELSE IF inspect = "no pid"
     THEN /\ Issue({})
          /\ DidWith("_usage", id, "failed: Container is not running", <<>>)
          /\ UNCHANGED rec
     ELSE /\ rec' = [rec EXCEPT ![containers_[id]].pid = 1]
          /\ __usage("_usage", id, probe)
  /\ UNCHANGED UsageFrame

\* ---------------------------------------------------------------- recover
\* The persisted state handed to recover is a sequence of executors (the
\* order the hashmaps iterate in), each with the ContainerID of its latest
\* run: shape "no info" (executor.info is None), "no latest", "no pid" (the
\* run has no forkedPid), "completed" or "run", and the forked pid.  ps is
\* the docker ps listing after parse: per ContainerID the primary container
\* ("absent", "stopped": listed without a pid, or "running") and whether an
\* executor container is listed.  alive is the set of pids os::exists finds,
\* waitFails the ContainerIDs for which launchWaitProcess fails.  An
\* executor's old is the set of ContainerIDs of its earlier runs.
NoAcc == [conts |-> {}, execs |-> {}, pids |-> {}, new |-> <<>>, err |-> ""]

\* recoverContainer without the test of pids.
recoverContainerNoDuplicateTest(acc, e, ps, alive, waitFails) ==
  LET lost == e.pid \notin alive /\ e.id \in acc.conts IN
  IF lost /\ ps[e.id].primary = "stopped" THEN acc
  ELSE IF lost /\ e.id \notin acc.execs THEN acc
  ELSE
    LET a == [acc EXCEPT !.pids = @ \cup {e.pid}, !.conts = @ \ {e.id}] IN
    IF lost /\ e.id \in waitFails
    THEN [a EXCEPT !.new = Append(@, [id |-> e.id, status |-> "pending",
                                      wait |-> TRUE, pid |-> e.pid]),
                   !.err = "Unable to launch docker wait on executor"]
    ELSE [a EXCEPT !.new = Append(@, [id |-> e.id, status |-> "set",
                                      wait |-> lost, pid |-> e.pid]),
                   !.execs = IF lost THEN @ \ {e.id} ELSE @]

\* recoverContainer reaping the checkpointed pid of a reattached executor.
recoverContainerReapsOldPid(acc, e, ps, alive, waitFails) ==
  LET lost == e.pid \notin alive /\ e.id \in acc.conts IN
  IF lost /\ ps[e.id].primary = "stopped" THEN acc
  ELSE IF lost /\ e.id \notin acc.execs THEN acc
  ELSE IF e.pid \in acc.pids THEN [acc EXCEPT !.err = "Detected duplicate pid"]
  ELSE
    LET a == [acc EXCEPT !.pids = @ \cup {e.pid}, !.conts = @ \ {e.id}] IN
    IF lost /\ e.id \in waitFails
    THEN [a EXCEPT !.new = Append(@, [id |-> e.id, status |-> "pending",
                                      wait |-> TRUE, pid |-> e.pid]),
                   !.err = "Unable to launch docker wait on executor"]
    ELSE [a EXCEPT !.new = Append(@, [id |-> e.id, status |-> "set",
                                      wait |-> FALSE, pid |-> e.pid]),
                   !.execs = IF lost THEN @ \ {e.id} ELSE @]

\* recoverContainer taking every dead pid for a lost executor, whether or
\* not a Docker container is listed.
recoverContainerLostAnywhere(acc, e, ps, alive, waitFails) ==
  LET lost == e.pid \notin alive IN
  IF lost /\ ps[e.id].primary = "stopped" THEN acc
  ELSE IF lost /\ e.id \notin acc.execs THEN acc
  ELSE IF e.pid \in acc.pids THEN [acc EXCEPT !.err = "Detected duplicate pid"]
  ELSE
    LET a == [acc EXCEPT !.pids = @ \cup {e.pid}, !.conts = @ \ {e.id}] IN
    IF lost /\ e.id \in waitFails
    THEN [a EXCEPT !.new = Append(@, [id |-> e.id, status |-> "pending",
                                      wait |-> TRUE, pid |-> e.pid]),
                   !.err = "Unable to launch docker wait on executor"]
    ELSE [a EXCEPT !.new = Append(@, [id |-> e.id, status |-> "set",
                                      wait |-> lost, pid |-> e.pid]),
                   !.execs = IF lost THEN @ \ {e.id} ELSE @]

\* recoverContainer(containerId, slaveId, executorPid, containers, executors,
\* pids).  acc.new lists the records it registers, with the state of their
\* status.
recoverContainer(acc, e, ps, alive, waitFails) ==
  LET lost == e.pid \notin alive /\ e.id \in acc.conts IN
  IF lost /\ ps[e.id].primary = "stopped" THEN acc
  ELSE IF lost /\ e.id \notin acc.execs THEN acc
  ELSE IF e.pid \in acc.pids THEN [acc EXCEPT !.err = "Detected duplicate pid"]
  ELSE
    LET a == [acc EXCEPT !.pids = @ \cup {e.pid}, !.conts = @ \ {e.id}] IN
    IF lost /\ e.id \in waitFails
    THEN [a EXCEPT !.new = Append(@, [id |-> e.id, status |-> "pending",
                                      wait |-> TRUE, pid |-> e.pid]),
                   !.err = "Unable to launch docker wait on executor"]
    ELSE [a EXCEPT !.new = Append(@, [id |-> e.id, status |-> "set",
                                      wait |-> lost, pid |-> e.pid]),
                   !.execs = IF lost THEN @ \ {e.id} ELSE @]

\* The value of ContainerID i, and the id of the slave.
idValue(i) == [k \in 1..i |-> "a"]
slaveId == <<"a">>

\* The first loop of _recover: containers, a list of Docker containers with
\* their names and whether they have a pid, is split by parse and by the
\* ".executor" in the name into _containers and executors.
partition(containers) ==
  LET of(i, executor) ==
        {c \in containers :
           /\ parse(c.name) = <<idValue(i)>>
           /\ executor = containsStr(c.name, <<".", "e", "x", "e", "c", "u",
                                               "t", "o", "r">>)}
  IN [i \in Ids |->
        [primary |-> IF of(i, FALSE) = {} THEN "absent"
                     ELSE IF \E c \in of(i, FALSE) : c.pid THEN "running"
                     ELSE "stopped",
         executor |-> of(i, TRUE) # {}]]

\* The loop of _recover with the test for a completed run left out.
RECURSIVE recoverLoopCompleted(_, _, _, _, _, _)
recoverLoopCompleted(acc, state, i, ps, alive, waitFails) ==
  IF i > Len(state) \/ acc.err # "" THEN acc
  ELSE recoverLoopCompleted(
         IF state[i].shape \in {"run", "completed"}
         THEN recoverContainer(acc, state[i], ps, alive, waitFails)
         ELSE acc,
         state, i + 1, ps, alive, waitFails)

\* The loop of _recover over the persisted executors, from entry i on.
RECURSIVE recoverLoop(_, _, _, _, _, _)
recoverLoop(acc, state, i, ps, alive, waitFails) ==
  IF i > Len(state) \/ acc.err # "" THEN acc
  ELSE recoverLoop(
         IF state[i].shape = "run"
         THEN recoverContainer(acc, state[i], ps, alive, waitFails)
         ELSE acc,
         state, i + 1, ps, alive, waitFails)

\* The record number recoverContainer's j-th new Container gets.
newRid(j) == nextRid + j - 1

\* The last record a _recover registers for a ContainerID (0: none).
lastNew(new, id) ==
  IF \E j \in 1..Len(new) : new[j].id = id
  THEN CHOOSE j \in 1..Len(new) :
         new[j].id = id /\ \A i \in 1..Len(new) : new[i].id = id => i <= j
  ELSE 0

\* The same as _recover below, with the records of a failed recover not
\* registered.
_recoverRollsBack(state, ps, alive, waitFails, killOrphans) ==
  LET acc == recoverLoop(
               [NoAcc EXCEPT
                  !.conts = {i \in Ids : ps[i].primary # "absent"},
                  !.execs = {i \in Ids : ps[i].executor}],
               state, 1, ps, alive, waitFails)
      new == IF acc.err = "" THEN acc.new ELSE <<>>
      news == 1..Len(new)
      replaced == {containers_[new[j].id] : j \in news} \ {0}
  IN
  /\ ~aborted
  /\ nRecover < MaxRecovers
  /\ nextRid + Len(new) - 1 <= recordBound
  /\ nRecover' = nRecover + 1
  /\ containers_' = [i \in Ids |->
                       IF lastNew(new, i) # 0 THEN newRid(lastNew(new, i))
                       ELSE containers_[i]]
  /\ rec' = [r \in Rids |->
               IF \E j \in news : r = newRid(j)
               THEN [NoRec EXCEPT !.state = "RUNNING"]
               ELSE IF r \in replaced THEN NoRec
               ELSE rec[r]]
  /\ owner' = [r \in Rids |->
                 IF \E j \in news : r = newRid(j)
                 THEN new[r - nextRid + 1].id ELSE owner[r]]
  /\ status' = [r \in Rids |->
                  IF \E j \in news : r = newRid(j)
                  THEN new[r - nextRid + 1].status ELSE status[r]]
  /\ reapFut' = [r \in Rids |->
                   IF \E j \in news : r = newRid(j) /\ new[j].status = "set"
                   THEN "pending" ELSE reapFut[r]]
  /\ rcb' = [r \in Rids |->
               IF \E j \in news : r = newRid(j) /\ new[j].status = "set"
               THEN "pending" ELSE rcb[r]]
  /\ dtoks' = [j \in Toks |->
                 IF dtoks[j].pc = "wait_status" /\ dtoks[j].rid \in replaced
                    /\ status[dtoks[j].rid] = "pending"
                 THEN NoTok ELSE dtoks[j]]
  /\ Issue({<<"docker ps">>}
           \cup {<<"docker wait", new[j].id>> : j \in
                   {n \in news : new[n].wait}}
           \cup {<<"reap", new[j].id, new[j].pid>> : j \in
                   {n \in news : new[n].status = "set" /\ ~new[n].wait}}
           \cup {<<"reap wait", new[j].id>> : j \in
                   {n \in news : new[n].status = "set" /\ new[n].wait}}
           \cup (IF acc.err = "" /\ killOrphans
                 THEN {<<"docker stop", i, "force">> : i \in acc.conts}
                      \cup {<<"docker stop executor", i, "force">> :
                               i \in acc.execs}
                 ELSE {}))
  /\ DidWith("_recover", 0, IF acc.err = "" THEN "ok" ELSE acc.err,
             <<state, ps, alive, waitFails, killOrphans>>)
  /\ UNCHANGED <<obs, UpdateVars, flags, termination, chains, pullDiscard,
                 aborted>>

\* recover(state) with its docker ps, and _recover(state, containers).
\* containers_[containerId] = container replaces whatever record the
\* ContainerID had; the replaced Container is never deleted, but nothing
\* reaches it any more.
_recover(state, ps, alive, waitFails, killOrphans) ==
  LET acc == recoverLoop(
               [NoAcc EXCEPT
                  !.conts = {i \in Ids : ps[i].primary # "absent"},
                  !.execs = {i \in Ids : ps[i].executor}],
               state, 1, ps, alive, waitFails)
      new == acc.new
      news == 1..Len(new)
      replaced == {containers_[new[j].id] : j \in news} \ {0}
  IN
  /\ ~aborted
  /\ nRecover < MaxRecovers
  /\ nextRid + Len(new) - 1 <= recordBound
  /\ nRecover' = nRecover + 1
  /\ containers_' = [i \in Ids |->
                       IF lastNew(new, i) # 0 THEN newRid(lastNew(new, i))
                       ELSE containers_[i]]
  /\ rec' = [r \in Rids |->
               IF \E j \in news : r = newRid(j)
               THEN [NoRec EXCEPT !.state = "RUNNING"]
               ELSE IF r \in replaced THEN NoRec
               ELSE rec[r]]
  /\ owner' = [r \in Rids |->
                 IF \E j \in news : r = newRid(j)
                 THEN new[r - nextRid + 1].id ELSE owner[r]]
  /\ status' = [r \in Rids |->
                  IF \E j \in news : r = newRid(j)
                  THEN new[r - nextRid + 1].status ELSE status[r]]
  /\ reapFut' = [r \in Rids |->
                   IF \E j \in news : r = newRid(j) /\ new[j].status = "set"
                   THEN "pending" ELSE reapFut[r]]
  /\ rcb' = [r \in Rids |->
               IF \E j \in news : r = newRid(j) /\ new[j].status = "set"
               THEN "pending" ELSE rcb[r]]
  /\ dtoks' = [j \in Toks |->
                 IF dtoks[j].pc = "wait_status" /\ dtoks[j].rid \in replaced
                    /\ status[dtoks[j].rid] = "pending"
                 THEN NoTok ELSE dtoks[j]]
  /\ Issue({<<"docker ps">>}
           \cup {<<"docker wait", new[j].id>> : j \in
                   {n \in news : new[n].wait}}
           \cup {<<"reap", new[j].id, new[j].pid>> : j \in
                   {n \in news : new[n].status = "set" /\ ~new[n].wait}}
           \cup {<<"reap wait", new[j].id>> : j \in
                   {n \in news : new[n].status = "set" /\ new[n].wait}}
           \cup (IF acc.err = "" /\ killOrphans
                 THEN {<<"docker stop", i, "force">> : i \in acc.conts}
                      \cup {<<"docker stop executor", i, "force">> :
                               i \in acc.execs}
                 ELSE {}))
  /\ DidWith("_recover", 0, IF acc.err = "" THEN "ok" ELSE acc.err,
             <<state, ps, alive, waitFails, killOrphans>>)
  /\ UNCHANGED <<obs, UpdateVars, flags, termination, chains, pullDiscard,
                 aborted>>

\* The reaped callback armed by recoverContainer for record rid runs.
reapedRecovered(rid) ==
  /\ ~aborted
  /\ rcb[rid] = "pending"
  /\ reapFut[rid] = "ready"
  /\ reaped(owner[rid])
  /\ rcb' = [rcb EXCEPT ![rid] = "done"]
  /\ Did("reaped", owner[rid], "none")
  /\ UNCHANGED <<obs, UpdateVars, flags, owner, status, reapFut, chains,
                 nRecover>>

\* The persisted states and listings the specifications draw recover's input
\* from.
Runs == {<<[id |-> i, shape |-> "run", pid |-> 1]>> : i \in CallIds}

Listings == {[i \in Ids |-> [primary |-> "running", executor |-> TRUE]]}

\* The docker ps listing in which the containers of ContainerID i are as
\* ps[i] says - the first ContainerID's under the names with the leading
\* slash, the primary container of the others under its legacy name - next
\* to a container that Mesos did not start.
dockerPs(ps) ==
  LET lead(i) == IF i = 1 THEN <<"/">> ELSE <<>> IN
  {[name |-> <<"x">> \o containerName(slaveId, idValue(1)), pid |-> TRUE]}
  \cup {[name |-> IF i = 1
                  THEN lead(i) \o containerName(slaveId, idValue(i))
                  ELSE legacyName(idValue(i)),
          pid |-> ps[i].primary = "running"] :
          i \in {j \in Ids : ps[j].primary # "absent"}}
  \cup {[name |-> lead(i) \o executorName(slaveId, idValue(i)),
          pid |-> TRUE] : i \in {j \in Ids : ps[j].executor}}

\* The persisted states of a recovering agent: two executors, each with a
\* latest run of any shape under a ContainerID of its own and an earlier run
\* under another ContainerID.
RecStates ==
  LET Executors ==
        {[shape |-> sh, id |-> i, pid |-> p, old |-> Ids \ {i}] :
           sh \in {"no info", "no latest", "no pid", "completed", "run"},
           i \in Ids, p \in {1, 2}}
  IN {p \in Executors \X Executors : p[1].id # p[2].id}

\* What _recover makes of the docker ps listings.
RecListings ==
  {partition(dockerPs(ps)) :
     ps \in [Ids -> [primary : {"absent", "stopped", "running"},
                     executor : BOOLEAN]]}

\* recover of an agent that has just started.
NextRec ==
  /\ nRecover < MaxRecovers
  /\ \E state \in RecStates, ps \in RecListings, alive \in SUBSET {1, 2},
        waitFails \in {{}, Ids}, killOrphans \in BOOLEAN :
       _recover(state, ps, alive, waitFails, killOrphans)

\* ------------------------------------------------------------------- Next
Outcomes == {"ok", "checkpoint failed", "fork failed", "write failed",
             "run failed", "wait failed", "inspect failed", "no pid"}

\* The agent's calls.
Calls ==
  \/ \E id \in CallIds, ctype \in {"none", "MESOS", "DOCKER"},
        create \in CreateResults :
       launch(id, ctype, create)
  \/ \E id \in CallIds, ctype \in {"none", "MESOS", "DOCKER"},
        create \in CreateResults :
       launchExecutor(id, ctype, create)
  \/ \E id \in CallIds : destroyCall(id)
  \/ \E id \in CallIds : wait(id)
  \/ \E state \in Runs, ps \in Listings, alive \in SUBSET {1} :
       \E waitFails \in IF alive = {} THEN {{}, Ids} ELSE {{}} :
         _recover(state, ps, alive, waitFails, TRUE)

\* The completions of external operations and the continuations and
\* callbacks dispatched to the process.
Completions ==
  \/ \E k \in Chains, ok \in BOOLEAN : _launch(k, ok)
  \/ \E k \in Chains, o \in {"ready", "failed", "discarded"} : __launch(k, o)
  \/ \E k \in Chains, ok \in BOOLEAN : runDone(k, ok)
  \/ \E k \in Chains, o \in Outcomes : ___launch(k, o)
  \/ \E k \in Chains : ___launchInContainer(k)
  \/ \E k \in Chains, o \in Outcomes : ____launchInContainer(k, o)
  \/ \E k \in Chains : ____launch(k)
  \/ \E k \in Chains, o \in Outcomes : _____launch(k, o)
  \/ \E k \in Chains : ______launch(k)
  \/ \E k \in Chains : _______launch(k)
  \/ \E rid \in Rids : reapExit(rid)
  \/ \E k \in Chains : reapedLaunched(k)
  \/ \E k \in Chains : onFailed(k)
  \/ \E j \in Toks : _destroy(j)
  \/ \E j \in Toks, ok \in BOOLEAN : __destroy(j, ok)
  \/ \E j \in Toks : ___destroy(j)
  \/ \E rid \in Rids : reapedRecovered(rid)

Next == Calls \/ Completions

Spec == Init /\ [][Next]_vars

\* The same machine with the commands and results of each step recorded.
InitObs == Start /\ obs = TRUE /\ updating = FALSE /\ helper = Untracked

SpecObs == InitObs /\ [][Next]_vars

\* The environment's answers that make a difference to update(id, ...):
\* all of them when __update runs at once, one otherwise.
outcomesFor(id) ==
  IF contains(id) /\ Container(id).pid # 0 THEN UpdateOutcomes ELSE {"ok"}

\* The agent's update calls and the completions of their docker inspect.
Updates ==
  \/ \E id \in CallIds, resources \in ResourceValues :
       \E e \in outcomesFor(id) : update(id, resources, e)
  \/ \E u \in Upds, inspect \in {"failed", "no pid"} :
       _update(u, inspect, "ok")
  \/ \E u \in Upds, e \in UpdateOutcomes : _update(u, "pid", e)

\* The agent's usage calls and the completions of their docker inspect.
Usages ==
  \/ \E id \in CallIds, probe \in {"ok", "failed"} : usage(id, probe)
  \/ \E u \in Uses, inspect \in {"failed", "no pid", "pid"},
        probe \in {"ok", "failed"} : _usage(u, inspect, probe)

NextUpd == Next \/ Updates

\* The machine with one ContainerID and one record, observed, and an agent
\* that also calls update.
InitUpd == Start /\ obs = TRUE /\ updating = TRUE /\ helper = Untracked

SpecUpd == InitUpd /\ [][NextUpd]_vars

\* The steps of a machine whose agent launches executors only, destroys them,
\* updates them and asks for their usage.
NextUse ==
  \/ \E id \in CallIds, ctype \in {"none", "MESOS", "DOCKER"},
        create \in CreateResults :
       launchExecutor(id, ctype, create)
  \/ \E id \in CallIds : destroyCall(id)
  \/ \E k \in Chains, ok \in BOOLEAN : _launch(k, ok)
  \/ \E k \in Chains, o \in {"ready", "failed", "discarded"} : __launch(k, o)
  \/ \E k \in Chains, ok \in BOOLEAN : runDone(k, ok)
  \/ \E k \in Chains : ____launch(k)
  \/ \E k \in Chains, o \in Outcomes : _____launch(k, o)
  \/ \E k \in Chains : ______launch(k)
  \/ \E k \in Chains : _______launch(k)
  \/ \E rid \in Rids : reapExit(rid)
  \/ \E k \in Chains : reapedLaunched(k)
  \/ \E k \in Chains : onFailed(k)
  \/ \E j \in Toks : _destroy(j)
  \/ \E j \in Toks, ok \in BOOLEAN : __destroy(j, ok)
  \/ \E j \in Toks : ___destroy(j)
  \/ Updates
  \/ Usages

SpecUse == InitUpd /\ [][NextUse]_vars

\* The recovery of an agent that has just started, not nested in Docker.
InitRec == InitObs /\ ~flags.docker_mesos_image

SpecRec == InitRec /\ [][NextRec]_vars

\* parse applied to the names of Docker containers.
SpecCodec == InitObs /\ [][NextCodec]_vars

\* The call endpoint validating the headers of requests.
SpecHttp == InitObs /\ [][NextHttp]_vars

\* The steps of a machine with one record whose agent launches a task
\* outside Docker and destroys it, with the child that ___launch forks.
NextShake ==
  \/ \E id \in CallIds, ctype \in {"none", "MESOS", "DOCKER"},
        create \in CreateResults :
       launch(id, ctype, create)
  \/ \E id \in CallIds : destroyCall(id)
  \/ \E k \in Chains, ok \in BOOLEAN : _launch(k, ok)
  \/ \E k \in Chains, o \in {"ready", "failed", "discarded"} : __launch(k, o)
  \/ \E k \in Chains, ok \in BOOLEAN : runDone(k, ok)
  \/ \E k \in Chains, o \in Outcomes : ___launch(k, o)
  \/ \E k \in Chains : ______launch(k)
  \/ \E k \in Chains : _______launch(k)
  \/ \E rid \in Rids : reapExit(rid)
  \/ \E k \in Chains : reapedLaunched(k)
  \/ \E k \in Chains : onFailed(k)
  \/ \E j \in Toks : _destroy(j)
  \/ \E j \in Toks, ok \in BOOLEAN : __destroy(j, ok)
  \/ \E j \in Toks : ___destroy(j)
  \/ \E k \in Chains, o \in {"ok", "setsid failed", "chdir failed"} :
       setup(k, o)

InitShake ==
  /\ Start /\ obs = TRUE /\ updating = TRUE
  /\ helper # Untracked /\ ~flags.docker_mesos_image

SpecShake == InitShake /\ [][NextShake]_vars

TypeOK ==
  /\ containers_ \in [Ids -> 0..MaxRecords]
  /\ \A r \in Rids : rec[r].state \in {"NONE", "FETCHING", "PULLING",
                                       "RUNNING", "DESTROYING"}
  /\ \A i \in Ids : contains(i) => Container(i).state # "NONE"

\* ------------------------------------------------------------ properties
\* Record r is the one registered under some ContainerID.
registered(r) == \E i \in Ids : containers_[i] = r

\* Promise completed: Termination set, or failed.
completed(r) == termination[r].state # "pending"

\* C1: no step sets the state of a container record to an earlier state of
\* FETCHING -> PULLING -> RUNNING -> DESTROYING; the only other change is the
\* removal of the record.
C1_StateOnlyMovesForward ==
  [][\A r \in Rids :
       rec[r].state # "NONE" /\ rec'[r].state # "NONE"
         => StateRank(rec'[r].state) >= StateRank(rec[r].state)]_vars

\* C2: once the record registered under a ContainerID is in DESTROYING, no
\* step leaves a record in RUNNING registered under that ContainerID.
C2_DestroyingNeverRunning ==
  [][\A i \in Ids :
       contains(i) /\ Container(i).state = "DESTROYING" /\ contains(i)'
         => Container(i)'.state # "RUNNING"]_vars

\* C3: after destroy has been executed for a registered container, its
\* termination is completed and its record removed once every external
\* operation has completed and every continuation has run: when nothing is
\* left to complete, no record is still in DESTROYING.
C3_DestroyCompletes ==
  (~aborted /\ ~ENABLED Completions)
    => \A r \in Rids : rec[r].state # "DESTROYING"

\* C4: the termination of a container record is completed (set or failed)
\* at most once.
C4_TerminationOnce == \A r \in Rids : termination[r].sets <= 1

\* A record's termination has been completed, exactly once, by a teardown
\* that ran to its end.
C4_Witness ==
  \E r \in Rids : /\ termination[r].sets = 1
                  /\ termination[r].message = <<"Container killed">>

\* C5: a record leaves the registry only in a step that completes its
\* termination, and a ContainerID is registered only while the termination
\* of its record is pending.
C5_RemovedOnlyTerminated ==
  [][/\ \A r \in Rids : registered(r) /\ ~registered(r)'
                          => ~completed(r) /\ completed(r)'
     /\ \A i \in Ids : contains(i)' => ~completed(containers_[i])']_vars

\* The failures of an external stage of the launch chain, as opposed to the
\* Failure a continuation returns when it finds the container gone.
Gone == {"Container was destroyed while launching",
         "Container was destroyed while pulling image"}

\* C6: when a stage of the launch chain has failed, the destroy(containerId,
\* true) its onFailed handler runs leaves the Termination of the launched
\* container set, killed, with the message of the error that failed the
\* launch.
C6_FailureSetsTermination ==
  [][\A k \in Chains :
       (chains[k].pc = "failed" /\ chains'[k].pc = "failed_done"
          /\ chains[k].err \notin Gone)
       => LET t == termination'[chains[k].rid] IN
          /\ t.state = "set"
          /\ t.killed
          /\ t.message[Len(t.message)] = chains[k].err]_vars

\* The steps that execute destroy: the agent's call, the onFailed handler of a
\* launch chain, and reaped.
DestroyOps == {"destroy", "onFailed", "reaped"}

\* The step executes destroy for ContainerID i.
destroys(i) == last'.op \in DestroyOps /\ last'.id = i

\* What a no-op leaves alone: the registry, the records and their promises,
\* and the teardown continuations.
ContainerVars == <<containers_, rec, owner, status, reapFut, termination,
                   pullDiscard, dtoks, aborted>>

\* C7: destroy executed on a container in FETCHING calls the fetcher's kill,
\* sets the Termination "Container destroyed while fetching" and removes the
\* record in the same step; afterwards the launch chain of that container
\* issues no docker pull, whatever the fetch does.
C7_DestroyWhileFetching ==
  [][/\ \A i \in Ids :
          (destroys(i) /\ contains(i) /\ Container(i).state = "FETCHING")
          => /\ <<"fetcher kill", i>> \in cmds'
             /\ termination'[containers_[i]].state = "set"
             /\ termination'[containers_[i]].message =
                  <<"Container destroyed while fetching">>
             /\ ~contains(i)'
     /\ \A k \in Chains :
          (/\ chains[k].pc = "fetch"
           /\ termination[chains[k].rid].message =
                <<"Container destroyed while fetching">>)
          => chains'[k].pc \in {"fetch", "failed"}]_vars

\* C8: destroy executed on a container in PULLING discards the pull, sets the
\* Termination killed with "Container destroyed while pulling image" and
\* removes the record; afterwards the launch chain of that container issues
\* no docker run and ends failed (or discarded with its pull).
C8_DestroyWhilePulling ==
  [][/\ \A i \in Ids :
          (destroys(i) /\ contains(i) /\ Container(i).state = "PULLING")
          => /\ <<"pull discard", i>> \in cmds'
             /\ termination'[containers_[i]].state = "set"
             /\ termination'[containers_[i]].killed
             /\ termination'[containers_[i]].message =
                  <<"Container destroyed while pulling image">>
             /\ ~contains(i)'
     /\ \A k \in Chains :
          (/\ chains[k].pc = "pull"
           /\ termination[chains[k].rid].message =
                <<"Container destroyed while pulling image">>)
          => chains'[k].pc \in {"pull", "failed", "discarded"}]_vars

C10_DuplicateLaunchFails ==
  [][\A i \in Ids :
       (last'.op = "launch" /\ last'.id = i /\ contains(i))
       => /\ last'.res = "failed: Container already started"
          /\ UNCHANGED ContainerVars
          /\ UNCHANGED chains
          /\ cmds' = {}]_vars

\* A launch has just failed on a registered ContainerID.
C10_Witness ==
  /\ last.op = "launch"
  /\ last.res = "failed: Container already started"
  /\ last.id \in Ids
  /\ contains(last.id)

\* The container types of a request that does not name a Docker container:
\* no container info, or a type other than DOCKER.
NonDocker == {"none", "MESOS"}

\* The step is a launch call (either overload) for ContainerID i with
\* container type ct and Container::create outcome cr.
launches(i, ct, cr) == launch(i, ct, cr) \/ launchExecutor(i, ct, cr)

\* C11 as stated: launch returns false whenever the request does not name a
\* Docker container type, inserts nothing into the registry and starts no
\* sandbox preparation and no fetch.  (Contrapositive form: a launch step
\* that does anything else is not a launch of such a request.)
C11_NonDockerReturnsFalse ==
  [][(/\ last'.op = "launch"
      /\ ~(/\ last'.res = "false"
           /\ UNCHANGED ContainerVars /\ UNCHANGED chains
           /\ cmds' = {}))
     => \A ct \in NonDocker, cr \in CreateResults :
          ~launches(last'.id, ct, cr)]_vars

\* C11, amended: launch with a request that does not name a Docker container
\* type returns false when the ContainerID is not registered, and fails with
\* "Container already started" when it is; in both cases the registry and
\* the records are unchanged and no sandbox preparation and no fetch is
\* started.  (Contrapositive form, as above.)
C11_NonDockerLaunch ==
  [][(/\ last'.op = "launch"
      /\ ~(/\ last'.res = IF contains(last'.id)
                          THEN "failed: Container already started"
                          ELSE "false"
           /\ UNCHANGED ContainerVars /\ UNCHANGED chains
           /\ cmds' = {}))
     => \A ct \in NonDocker, cr \in CreateResults :
          ~launches(last'.id, ct, cr)]_vars

\* A launch has just returned false for a ContainerID that is not registered.
C11_Witness ==
  /\ last.op = "launch"
  /\ last.res = "false"
  /\ last.id \in Ids
  /\ ~contains(last.id)
  /\ cmds = {}

\* C12: if a step of the sandbox preparation fails, launch (of a Docker
\* request for a ContainerID that is not registered) fails before the
\* registry is touched: no record is inserted, no launch chain and with it
\* no fetch is started, and no destroy is triggered.  (Contrapositive form:
\* a launch step on an unregistered ContainerID that does anything else is
\* not a launch whose sandbox preparation failed.)
C12_SandboxFailureBeforeRegistry ==
  [][(/\ last'.op = "launch"
      /\ ~contains(last'.id)
      /\ ~(/\ last'.res = "failed: Failed to create container"
           /\ UNCHANGED ContainerVars /\ UNCHANGED chains
           /\ cmds' \subseteq {<<"sandbox", last'.id>>}))
     => \A f \in SandboxSteps :
          ~launches(last'.id, "DOCKER", Container_create(f))]_vars

\* A launch has just failed in Container::create: the ContainerID is not
\* registered and only the sandbox has been worked on.
C12_Witness ==
  /\ last.op = "launch"
  /\ last.res = "failed: Failed to create container"
  /\ last.id \in Ids
  /\ ~contains(last.id)
  /\ cmds = {<<"sandbox", last.id>>}

\* The launch of chain k has resolved true and the record it registered is
\* still the one in the registry under its ContainerID.
launchedTrue(k) ==
  /\ chains[k].pc = "done"
  /\ chains[k].rid \in Rids
  /\ contains(chains[k].id)
  /\ containers_[chains[k].id] = chains[k].rid

\* C13: in every state where launch has resolved true for a container that
\* is still in the registry, the status of that container is set and its
\* state is RUNNING or later.
C13_LaunchedTrueIsRunning ==
  \A k \in Chains :
    launchedTrue(k)
    => /\ status[chains[k].rid] = "set"
       /\ StateRank(rec[chains[k].rid].state) >= StateRank("RUNNING")

\* A destroy has been executed on record r while it was RUNNING: one of the
\* teardowns in progress was started on it.
tornDown(r) == \E j \in Toks : dtoks[j].pc # "unused" /\ dtoks[j].rid = r

\* The docker stop of a teardown started on record r has been issued: it is
\* settling or has settled successfully.
stopIssued(r) ==
  \E j \in Toks : dtoks[j].rid = r /\ dtoks[j].pc \in {"stopping", "wait_reap"}

\* The step completes (sets or fails) the termination of record r.
terminates(r) ==
  termination[r].state = "pending" /\ termination'[r].state # "pending"

\* The step is a destroy that finds ContainerID i RUNNING and starts the
\* teardown.
startsTeardown(i) ==
  /\ destroys(i)
  /\ contains(i)
  /\ Container(i).state = "RUNNING"
  /\ ~runIsFailed(Container(i))

\* The first steps of the teardown, taken by destroy itself: docker stop of
\* the executor-helper container with timeout 0, state DESTROYING, SIGTERM
\* to the process tree of executorPid if it is set, and nothing else.
TeardownStarts ==
  \A i \in Ids :
    startsTeardown(i)
    => /\ cmds' = {<<"docker stop executor", i, 0>>}
                   \cup (IF Container(i).executorPid
                         THEN {<<"killtree SIGTERM", i>>} ELSE {})
       /\ contains(i)' /\ Container(i)'.state = "DESTROYING"
       /\ containers_'[i] = containers_[i]
       /\ termination' = termination

\* docker stop on the container is issued only for a registered container
\* in DESTROYING whose status is set.
StopAfterStatus ==
  \A i \in Ids :
    <<"docker stop", i, "docker_stop_timeout">> \in cmds'
    => /\ contains(i)
       /\ Container(i).state = "DESTROYING"
       /\ status[containers_[i]] = "set"

\* The termination of a record being torn down is completed only by
\* __destroy or ___destroy, after the docker stop issued for it has settled.
TerminationAfterStop ==
  \A r \in Rids :
    (tornDown(r) /\ terminates(r))
    => /\ last'.op \in {"__destroy", "___destroy"}
       /\ stopIssued(r)

\* The delayed docker rm -f of the container and executor-helper names is
\* scheduled only in the step that completes the termination of the
\* registered record and removes it.
RemoveAfterTermination ==
  \A i \in Ids :
    (cmds' \cap {<<"delay docker rm", i>>, <<"delay docker rm executor", i>>}
       # {})
    => /\ contains(i) /\ terminates(containers_[i])
       /\ ~contains(i)'
       /\ cmds' = {<<"delay docker rm", i>>, <<"delay docker rm executor", i>>}

\* C14: the teardown of a container destroyed while RUNNING goes in this
\* order: docker stop of the executor helper (timeout 0), state DESTROYING,
\* SIGTERM to the executor's process tree; docker stop of the container only
\* after its status is set; completion of the termination only after that
\* docker stop has settled; then the delayed docker rm -f of both names.
C14_TeardownOrder ==
  [][/\ TeardownStarts
     /\ StopAfterStatus
     /\ TerminationAfterStop
     /\ RemoveAfterTermination]_vars

C16_StopFailureFailsTermination ==
  [][\A j \in Toks :
       __destroy(j, FALSE)
       => LET r == dtoks[j].rid
              i == dtoks[j].id
          IN /\ termination'[r].state = "failed"
             /\ termination'[r].message =
                  <<"Failed to kill the Docker container: ",
                    "docker stop failed">>
             /\ rec'[r] = NoRec
             /\ containers_'[i] = 0
             /\ cmds' = {<<"delay docker rm", i>>,
                         <<"delay docker rm executor", i>>}]_vars

\* The step is an update call that finds its container unknown, in
\* DESTROYING, or with resources equal to the ones passed.
ignoredUpdate ==
  /\ last'.op = "update"
  /\ \/ ~contains(last'.id)
     \/ Container(last'.id).state = "DESTROYING"
     \/ Container(last'.id).resources = last'.arg

\* C17: update returns unit and is a no-op - registry and records unchanged,
\* no docker inspect and no cgroup write issued - when the container is
\* unknown, when it is in DESTROYING, or when the resources equal the
\* container's current resources.
C17_UpdateNoOp ==
  [][ignoredUpdate
     => /\ last'.res = "Nothing"
        /\ cmds' = {}
        /\ UNCHANGED ContainerVars
        /\ UNCHANGED <<chains, updates, cgroup, usages>>]_vars

\* An update has just returned unit for a registered container that is not
\* being destroyed, with the resources the container already has, where any
\* other allocation would have led to a docker inspect.
C17_Witness ==
  /\ last.op = "update"
  /\ last.res = "Nothing"
  /\ last.id \in Ids
  /\ contains(last.id)
  /\ Container(last.id).state \in {"FETCHING", "PULLING", "RUNNING"}
  /\ Container(last.id).resources = last.arg
  /\ last.arg # NoResources
  /\ Container(last.id).pid = 0
  /\ ~flags.docker_mesos_image
  /\ cmds = {}

\* The step is an update call, with the agent nested in Docker, on a
\* registered container that is not in DESTROYING.
nestedUpdate ==
  /\ last'.op = "update"
  /\ flags.docker_mesos_image
  /\ contains(last'.id)
  /\ Container(last'.id).state # "DESTROYING"

\* Everything but the records is left as it was and no command is issued.
onlyRecords ==
  /\ cmds' = {}
  /\ UNCHANGED <<containers_, owner, status, reapFut, termination,
                 pullDiscard, dtoks, aborted, chains, updates, cgroup,
                 usages>>

\* C18 as stated: with docker_mesos_image set, update on a known container
\* that is not in DESTROYING issues no docker inspect and no cgroup write
\* and leaves the container record, its resources included, unchanged.
C18_NestedUpdateNoOp ==
  [][nestedUpdate
     => /\ last'.res = "Nothing"
        /\ onlyRecords
        /\ rec' = rec]_vars

\* C18, amended: such an update issues no docker inspect and no cgroup
\* write, and changes nothing but the resources field of the record, which
\* it sets to the resources passed.
C18_NestedUpdateStoresResources ==
  [][nestedUpdate
     => /\ last'.res = "Nothing"
        /\ onlyRecords
        /\ rec' = [rec EXCEPT
                     ![containers_[last'.id]].resources = last'.arg]]_vars

\* Nested in Docker, an update has just stored resources that neither launch
\* nor recover gave the container, and has issued nothing.
C18_Witness ==
  /\ last.op = "update"
  /\ last.res = "Nothing"
  /\ flags.docker_mesos_image
  /\ last.id \in Ids
  /\ contains(last.id)
  /\ Container(last.id).state # "DESTROYING"
  /\ Container(last.id).resources = last.arg
  /\ last.arg \notin {LaunchResources, NoResources}
  /\ cmds = {}

\* The step is an update call that repeats the update call of the step
\* before it - same ContainerID, same resources - on a registered container.
repeatedUpdate ==
  /\ last.op = "update"
  /\ last'.op = "update"
  /\ last'.id = last.id
  /\ last'.arg = last.arg
  /\ contains(last.id)

\* C19: in the sequence update(c, r); update(c, r) on a registered
\* container the second call finds identical resources (or the container in
\* DESTROYING, as the first did): it returns unit, issues no docker inspect
\* and no cgroup write and changes nothing, so the cgroup writes are made at
\* most once.
C19_UpdateIdempotent ==
  [][repeatedUpdate
     => /\ last'.res = "Nothing"
        /\ cmds' = {}
        /\ UNCHANGED <<rec, updates, cgroup>>
        /\ UNCHANGED ContainerVars]_vars

\* A second update(c, r) has just returned unit while the docker inspect of
\* the first update(c, r) is still in flight.
C19_Witness ==
  /\ last.op = "update"
  /\ last.res = "Nothing"
  /\ last.id \in Ids
  /\ contains(last.id)
  /\ Container(last.id).state # "DESTROYING"
  /\ Container(last.id).resources = last.arg
  /\ \E u \in Upds : updates[u] = [id |-> last.id, resources |-> last.arg,
                                   pc |-> "inspect"]
  /\ cmds = {}

\* The scenarios in which __update gets past the write of the soft limit.
SoftLimitWritten == {"ok", "no cpu cgroup", "limit read fails",
                     "limit write fails"}

\* The step runs __update for ContainerID i with resources r that name a
\* memory, in a scenario where the memory cgroup is found and the writes
\* before the hard limit succeed: at once from update (the pid is known) or
\* from _update after the docker inspect.
updatesMemory(i, r) ==
  /\ r[2] # 0
  /\ \/ /\ last'.op = "update"
        /\ contains(i)
        /\ Container(i).state # "DESTROYING"
        /\ Container(i).resources # r
        /\ Container(i).pid # 0
        /\ ~flags.docker_mesos_image
        /\ \E e \in SoftLimitWritten : update(i, r, e)
     \/ /\ last'.op = "_update"
        /\ contains(i)
        /\ \E u \in Upds, e \in SoftLimitWritten :
             /\ updates[u].id = i /\ updates[u].resources = r
             /\ _update(u, "pid", e)

\* C20: memory.limit_in_bytes of a container's memory cgroup never
\* decreases; the hard limit is written only with max(requested memory,
\* MIN_MEMORY) and only when that is above the current value, while
\* memory.soft_limit_in_bytes is written with that maximum whenever the
\* memory part of update is applied, whatever the current limit.
C20_MemoryLimitMonotone ==
  [][/\ \A i \in Ids : cgroup'[i].limit >= cgroup[i].limit
     /\ \A c \in cmds' :
          c[1] = "write memory.limit_in_bytes"
          => /\ c[3] = memoryLimit(last'.arg)
             /\ c[3] > cgroup[c[2]].limit
             /\ <<"write memory.soft_limit_in_bytes", c[2], c[3]>> \in cmds'
     /\ \A c \in cmds' :
          c[1] = "write memory.soft_limit_in_bytes"
          => c[3] = memoryLimit(last'.arg)
     /\ \A i \in Ids :
          (last'.op \in {"update", "_update"} /\ updatesMemory(i, last'.arg))
          => /\ <<"write memory.soft_limit_in_bytes", i,
                  memoryLimit(last'.arg)>> \in cmds'
             /\ cgroup'[i].soft = memoryLimit(last'.arg)]_vars

\* An update asking for less memory than the hard limit, which an earlier
\* update had raised, has just written the soft limit and left the hard
\* limit alone.
C20_Witness ==
  /\ last.op \in {"update", "_update"}
  /\ last.res = "Nothing"
  /\ last.id \in Ids
  /\ last.arg[2] # 0
  /\ cgroup[last.id].limit > InitialCgroup.limit
  /\ memoryLimit(last.arg) < cgroup[last.id].limit
  /\ cgroup[last.id].soft = memoryLimit(last.arg)
  /\ <<"write memory.soft_limit_in_bytes", last.id, memoryLimit(last.arg)>>
       \in cmds
  /\ \A c \in cmds : c[1] # "write memory.limit_in_bytes"

\* C21: usage fails for a ContainerID that is not registered and for a
\* container in DESTROYING, also when that is what _usage finds once the
\* docker inspect issued by usage has completed; in each of these cases it
\* issues no command and changes no record.  For a registered container that
\* is not in DESTROYING, usage with the agent nested in Docker returns empty
\* statistics and issues no docker inspect and no probe.
C21_UsageFails ==
  [][/\ (/\ last'.op \in {"usage", "_usage"}
          /\ \/ ~contains(last'.id)
             \/ Container(last'.id).state = "DESTROYING")
        => /\ last'.res =
                IF contains(last'.id)
                THEN "failed: Container is being removed"
                ELSE IF last'.op = "usage"
                THEN "failed: Unknown container"
                ELSE "failed: Container has been destroyed"
           /\ cmds' = {}
           /\ rec' = rec
     /\ (/\ last'.op = "usage"
          /\ contains(last'.id)
          /\ Container(last'.id).state # "DESTROYING"
          /\ flags.docker_mesos_image)
        => /\ last'.res = "empty statistics"
           /\ cmds' = {}
           /\ UNCHANGED <<rec, usages>>]_vars

\* _usage has just failed on a container that entered DESTROYING while the
\* docker inspect of usage was in flight, a pid in its answer.
C21_Witness ==
  /\ last.op = "_usage"
  /\ last.res = "failed: Container is being removed"
  /\ last.id \in Ids
  /\ contains(last.id)
  /\ Container(last.id).state = "DESTROYING"
  /\ cmds = {}

\* The step is a usage call or its continuation that returns statistics.
reportsUsage == last'.op \in {"usage", "_usage"} /\ last'.res = "statistics"

C23_WaitReturnsTermination ==
  [][last'.op = "wait"
     => /\ IF contains(last'.id)
           THEN /\ last'.res = "future"
                /\ last'.arg = <<containers_[last'.id]>>
                /\ termination[containers_[last'.id]].state = "pending"
           ELSE last'.res = "failed: Unknown container"
        /\ cmds' = {}
        /\ UNCHANGED ContainerVars
        /\ UNCHANGED chains]_vars

\* wait has just failed for a ContainerID whose container had been launched
\* and whose teardown has run to its end.
C23_Witness ==
  /\ last.op = "wait"
  /\ last.res = "failed: Unknown container"
  /\ last.id \in Ids
  /\ ~contains(last.id)
  /\ \E r \in Rids : /\ owner[r] = last.id
                      /\ termination[r].state = "set"
                      /\ termination[r].message = <<"Container killed">>

\* C24: name codec round trip.  For every ContainerID id and slave id s,
\* parse yields id for the name mesos-<s>.<id>, for mesos-<s>.<id>.executor
\* and for the legacy name mesos-<id>, and the same with a leading slash.
C24_NameRoundTrip ==
  \A s \in IdValues, i \in IdValues :
    name \in {containerName(s, i), executorName(s, i), legacyName(i),
              <<"/">> \o containerName(s, i),
              <<"/">> \o executorName(s, i), <<"/">> \o legacyName(i)}
    => parsed = <<i>>

\* C25: recovery considers only the latest run of each persisted executor: a
\* record is created, registered or reaped only under the ContainerID of the
\* latest run of an executor that has its info, its latest run, a forkedPid
\* and is not completed (shape "run"), never for another executor and never
\* under the ContainerID of an earlier run.  Skipping an executor is not an
\* error - a recover that skips all of them succeeds - and the executors
\* after it are recovered as if it were not there.
C25_OnlyLatestRuns ==
  last.op = "_recover"
  => LET state == last.arg[1]
         alive == last.arg[3]
         run(k) == state[k].shape = "run"
         execs == 1..Len(state)
     IN
     /\ \A i \in Ids :
          (\/ contains(i)
           \/ \E r \in Rids : owner[r] = i
           \/ \E c \in cmds : /\ c[1] \in {"reap", "reap wait", "docker wait"}
                               /\ c[2] = i)
          => \E k \in execs : run(k) /\ state[k].id = i
     /\ Cardinality({r \in Rids : owner[r] # 0})
          <= Cardinality({k \in execs : run(k)})
     /\ (\A k \in execs : ~run(k)) => last.res = "ok"
     /\ \A k \in execs :
          (/\ run(k) /\ state[k].pid \in alive
           /\ \A j \in execs \ {k} : ~run(j))
          => /\ last.res = "ok"
             /\ contains(state[k].id)
             /\ <<"reap", state[k].id, state[k].pid>> \in cmds

\* A recover has skipped its first executor, whose latest run is completed,
\* and has recovered the second.
C25_Witness ==
  /\ last.op = "_recover"
  /\ last.res = "ok"
  /\ last.arg[1][1].shape = "completed"
  /\ last.arg[1][1].pid \in last.arg[3]
  /\ last.arg[1][2].shape = "run"
  /\ ~contains(last.arg[1][1].id)
  /\ contains(last.arg[1][2].id)

\* C26 as claimed: a recover reaps a container by its checkpointed forked pid
\* only if that pid exists and a Docker container is listed under the
\* ContainerID.
C26_ReapOnlyWithLiveContainer ==
  last.op = "_recover"
  => \A c \in cmds :
       c[1] = "reap"
       => c[3] \in last.arg[3] /\ last.arg[2][c[2]].primary # "absent"

\* C26: a recover registers a record in RUNNING and reaps it by the
\* checkpointed forked pid of an executor's latest run only if that pid
\* exists or no Docker container is listed under the ContainerID; and a
\* recover that succeeds does so for every recoverable run of which either
\* is true, a listed container or none.
C26_ReapByCheckpointedPid ==
  last.op = "_recover"
  => LET state == last.arg[1]
         ps == last.arg[2]
         alive == last.arg[3]
         execs == 1..Len(state)
         byPid(k) == \/ state[k].pid \in alive
                     \/ ps[state[k].id].primary = "absent"
     IN
     /\ \A c \in cmds :
          c[1] = "reap"
          => /\ \E k \in execs : /\ state[k].shape = "run"
                                  /\ state[k].id = c[2]
                                  /\ state[k].pid = c[3]
                                  /\ byPid(k)
             /\ contains(c[2])
             /\ Container(c[2]).state = "RUNNING"
             /\ status[containers_[c[2]]] = "set"
     /\ last.res = "ok"
        => \A k \in execs :
             state[k].shape = "run" /\ byPid(k)
             => /\ <<"reap", state[k].id, state[k].pid>> \in cmds
                /\ <<"reap wait", state[k].id>> \notin cmds
                /\ contains(state[k].id)
                /\ Container(state[k].id).state = "RUNNING"

\* A recover has registered a record and reaps it by a checkpointed pid
\* that no longer exists; no Docker container is listed under its
\* ContainerID.
C26_Witness ==
  /\ last.op = "_recover"
  /\ \E c \in cmds :
       /\ c[1] = "reap"
       /\ c[3] \notin last.arg[3]
       /\ last.arg[2][c[2]].primary = "absent"
       /\ contains(c[2])
       /\ Container(c[2]).state = "RUNNING"

\* C27: in a recover that succeeds, for the latest run of an executor whose
\* checkpointed forked pid is dead while a Docker container with a pid and an
\* executor-helper container are listed under its ContainerID, docker wait is
\* spawned on the helper, the pid of that wait process is reaped instead of
\* the checkpointed pid, and the record is registered in RUNNING.  When the
\* pid is dead and the listed container has no pid or the helper is not
\* listed, no record is registered, nothing is spawned or reaped for the
\* ContainerID, and the skip is no error: a recover with no other executor to
\* recover returns ok.
C27_ReattachOrSkip ==
  last.op = "_recover"
  => LET state == last.arg[1]
         ps == last.arg[2]
         alive == last.arg[3]
         execs == 1..Len(state)
         lost(k) == /\ state[k].shape = "run"
                    /\ state[k].pid \notin alive
                    /\ ps[state[k].id].primary # "absent"
         both(k) == /\ ps[state[k].id].primary = "running"
                    /\ ps[state[k].id].executor
         about(i) == {c \in cmds : /\ c[1] \in {"reap", "reap wait",
                                                 "docker wait"}
                                   /\ c[2] = i}
     IN
     \A k \in execs :
       /\ lost(k) /\ both(k) /\ last.res = "ok"
          => /\ about(state[k].id) = {<<"docker wait", state[k].id>>,
                                      <<"reap wait", state[k].id>>}
             /\ contains(state[k].id)
             /\ Container(state[k].id).state = "RUNNING"
             /\ status[containers_[state[k].id]] = "set"
       /\ lost(k) /\ ~both(k)
          => /\ about(state[k].id) = {}
             /\ ~contains(state[k].id)
             /\ \A r \in Rids : owner[r] # state[k].id
             /\ (\A j \in execs \ {k} : state[j].shape # "run")
                => last.res = "ok"

\* A recover has reattached to the executor of a run whose checkpointed pid
\* is dead: it waits on the helper container and reaps that wait process.
C27_Witness ==
  /\ last.op = "_recover"
  /\ last.res = "ok"
  /\ \E k \in 1..Len(last.arg[1]) :
       LET e == last.arg[1][k] IN
       /\ e.shape = "run"
       /\ e.pid \notin last.arg[3]
       /\ last.arg[2][e.id].primary = "running"
       /\ last.arg[2][e.id].executor
       /\ <<"reap wait", e.id>> \in cmds
       /\ Container(e.id).state = "RUNNING"

\* C28: when a recover has claimed the forked pid of one executor's run - it
\* registered the record and set its status - and goes on to recover the run
\* of another executor with the same forked pid (a run it does not skip for
\* a stopped container or a missing helper), the recover fails with the
\* duplicate-pid error, no record is created or registered for the second
\* ContainerID, nothing is spawned or reaped for it, and no orphan is
\* stopped.
C28_DuplicatePidFails ==
  last.op = "_recover"
  => LET state == last.arg[1]
         ps == last.arg[2]
         alive == last.arg[3]
         first == state[1]
         second == state[2]
         claimed == /\ first.shape = "run"
                    /\ contains(first.id)
                    /\ status[containers_[first.id]] = "set"
         skipped == /\ second.pid \notin alive
                    /\ ps[second.id].primary # "absent"
                    /\ ~(ps[second.id].primary = "running"
                         /\ ps[second.id].executor)
     IN
     claimed /\ second.shape = "run" /\ second.pid = first.pid /\ ~skipped
     => /\ last.res = "Detected duplicate pid"
        /\ ~contains(second.id)
        /\ \A r \in Rids : owner[r] # second.id
        /\ \A c \in cmds :
             /\ c[1] \in {"reap", "reap wait", "docker wait"}
                => c[2] = first.id
             /\ c[1] \notin {"docker stop", "docker stop executor"}

\* A recover has failed on the dead forked pid of a second run that it was
\* about to reattach to: the first run had claimed the same pid.
C28_Witness ==
  /\ last.op = "_recover"
  /\ last.res = "Detected duplicate pid"
  /\ last.arg[5]
  /\ contains(last.arg[1][1].id)
  /\ ~contains(last.arg[1][2].id)
  /\ last.arg[1][2].pid = last.arg[1][1].pid
  /\ last.arg[1][2].pid \notin last.arg[3]
  /\ last.arg[2][last.arg[1][2].id].primary = "running"
  /\ last.arg[2][last.arg[1][2].id].executor

\* C29: with docker_kill_orphans a recover that succeeds issues docker stop,
\* forced, on exactly the listed primary and executor-helper containers of
\* the ContainerIDs that no recovered run has claimed - never on a container
\* of a claimed ContainerID, never on a container that parse does not take
\* for one of Mesos - and without docker_kill_orphans it issues none.
C29_OrphanSweep ==
  last.op = "_recover" /\ last.res = "ok"
  => LET ps == last.arg[2]
         unclaimed == {i \in Ids : ~contains(i)}
         stops == {c \in cmds : c[1] \in {"docker stop",
                                           "docker stop executor"}}
     IN
     stops = IF last.arg[5]
             THEN {<<"docker stop", i, "force">> :
                     i \in {j \in unclaimed : ps[j].primary # "absent"}}
                  \cup {<<"docker stop executor", i, "force">> :
                          i \in {j \in unclaimed : ps[j].executor}}
             ELSE {}

\* C30: the status of a record is set at most once - no _______launch finds
\* the status of the registered record set already - and it is set only by
\* a recover, for a container that was run before the agent restarted, or by
\* the _______launch of a launch of the record's ContainerID, which has
\* issued docker run in its __launch.
C30_StatusSetOnceAfterRun ==
  [][/\ \A k \in Chains :
          (/\ chains[k].pc = "reap" /\ chains'[k].pc # "reap"
           /\ contains(chains[k].id) /\ ~aborted')
          => status[containers_[chains[k].id]] = "pending"
     /\ \A r \in Rids :
          status[r] = "pending" /\ status'[r] = "set"
          => \/ nRecover' # nRecover
             \/ \E k \in Chains : /\ chains[k].pc = "reap"
                                   /\ chains'[k].pc # "reap"
                                   /\ chains[k].id = owner[r]]_vars

\* C31: the byte reaches the child's stdin only in a ___launch that has
\* checkpointed the pid with success; the child goes on to exec only by
\* reading that byte; a ___launch whose checkpoint or write fails leaves the
\* pipe closed without the byte and fails the launch, and from then on the
\* child never holds the byte and never execs: when its read returns, it
\* aborts.
C31_Handshake ==
  [][\A k \in Chains :
       /\ helper'[k].stdin = "byte" /\ helper[k].stdin # "byte"
          => /\ last'.op = "___launch" /\ last'.res = "ok"
             /\ <<"checkpoint", chains[k].id>> \in cmds'
             /\ rec'[containers_[chains[k].id]].executorPid
       /\ helper'[k].pc = "exec" /\ helper[k].pc # "exec"
          => helper[k].stdin = "byte" /\ helper'[k].stdin = "read"
       /\ (/\ last'.op = "___launch"
           /\ last'.res \in {"checkpoint failed", "write failed"}
           /\ chains[k].pc = "ran" /\ chains'[k].pc # "ran")
          => /\ helper'[k] = [pc |-> "setup", stdin |-> "closed"]
             /\ <<"close stdin", chains[k].id>> \in cmds'
             /\ <<"write byte", chains[k].id>> \notin cmds'
             /\ chains'[k].pc = "failed"
       /\ helper[k].stdin = "closed"
          => /\ helper'[k].stdin = "closed"
             /\ helper'[k].pc # "exec"
             /\ (helper'[k] # helper[k] /\ last'.res = "ok")
                => helper'[k].pc = "aborted"]_vars

\* The child of a launch that failed at the checkpoint or at the write has
\* aborted in setup.
C31_Witness ==
  \E k \in Chains :
    /\ helper[k] = [pc |-> "aborted", stdin |-> "closed"]
    /\ chains[k].pc \in {"failed", "failed_done"}

\* C32: the continuation of update that runs when its docker inspect has
\* completed writes no control file - it issues no command and leaves the
\* cgroup as it is - when the ContainerID is no longer registered or its
\* record is in DESTROYING.
C32_NoWriteAfterDestroy ==
  [][\A u \in Upds :
       (/\ updates[u].pc = "inspect" /\ updates'[u].pc # "inspect"
        /\ \/ ~contains(updates[u].id)
           \/ Container(updates[u].id).state = "DESTROYING")
       => cmds' = {} /\ cgroup' = cgroup]_vars

\* C33: a destroy executed for a ContainerID whose registered record has its
\* docker run pending neither erases the record nor completes its
\* termination; a destroy executed when the docker run of the registered
\* record has failed - by the agent, or by the onFailed handler that the
\* failure dispatches - sets the termination to "Failed to run container: "
\* with the failure of the run, erases the record and issues nothing; and no
\* _destroy, the step that issues docker stop on the container, runs for a
\* record whose docker run has failed.
C33_RunNeverCancelled ==
  [][/\ (/\ last'.op \in {"destroy", "onFailed", "reaped"}
         /\ contains(last'.id)
         /\ Container(last'.id).run = "pending")
        => /\ containers_'[last'.id] = containers_[last'.id]
           /\ termination'[containers_[last'.id]].state = "pending"
     /\ (/\ last'.op \in {"destroy", "onFailed", "reaped"}
         /\ contains(last'.id)
         /\ Container(last'.id).run = "failed")
        => /\ containers_'[last'.id] = 0
           /\ termination'[containers_[last'.id]].state = "set"
           /\ termination'[containers_[last'.id]].message
                = <<"Failed to run container: ", "docker run failed">>
           /\ cmds' = {}
     /\ (last'.op = "_destroy" /\ contains(last'.id))
        => Container(last'.id).run # "failed"]_vars

\* C34: while a launch has a continuation to run after its docker run, its
\* ContainerID is registered, and no CHECK(containers_.contains(containerId))
\* of those continuations fails.
C34_LaunchChecksHold ==
  /\ \A k \in Chains :
       chains[k].pc \in {"ran", "runexec", "logs", "inspect", "reap"}
       => contains(chains[k].id) \/ aborted
  /\ ~(/\ last.res = "CHECK failed"
       /\ last.op \in {"___launch", "___launchInContainer", "____launch",
                        "_____launch", "______launch",
                        "____launchInContainer", "_______launch"})

\* C37: no registered record has a failed run and a status that is set, and
\* so no destroy fails its CHECK_PENDING(container->status.future()).
C37_FailedRunStatusPending ==
  /\ \A i \in Ids :
       contains(i)
       => ~(runIsFailed(Container(i)) /\ status[containers_[i]] # "pending")
  /\ ~(aborted /\ last.op \in {"destroy", "onFailed", "reaped"})

\* C38: no CHECK of _destroy, __destroy or ___destroy fails: when one of them
\* runs its ContainerID is registered and the record in DESTROYING, and in
\* __destroy after a docker stop that succeeded the status is set.
C38_TeardownChecksHold ==
  ~(/\ last.res = "CHECK failed"
    /\ last.op \in {"_destroy", "__destroy", "___destroy"})

\* The step runs __update for ContainerID i with resources r in scenario e:
\* at once from update (the pid is known) or from _update after the docker
\* inspect has answered with a pid.
runs__update(i, r, e) ==
  \/ /\ last'.op = "update"
     /\ contains(i)
     /\ Container(i).state # "DESTROYING"
     /\ Container(i).resources # r
     /\ Container(i).pid # 0
     /\ r # NoResources
     /\ ~flags.docker_mesos_image
     /\ update(i, r, e)
  \/ /\ last'.op = "_update"
     /\ contains(i)
     /\ \E u \in Upds :
          /\ updates[u].id = i /\ updates[u].resources = r
          /\ _update(u, "pid", e)

\* The error of scenario e is met by __update with resources r on the
\* control files of ContainerID i: the lookups are made whatever is asked
\* for, a write or a read only when its subsystem is updated.
errorMet(i, r, e) ==
  \/ e \in {"cpu hierarchy error", "memory hierarchy error",
            "cpu cgroup error", "memory cgroup error"}
  \/ e = "cpu.shares write fails" /\ r[1] # 0
  \/ e \in {"soft limit write fails", "limit read fails"} /\ r[2] # 0
  \/ e = "limit write fails" /\ r[2] # 0
     /\ memoryLimit(r) > cgroup[i].limit

\* C35: update applies the resources per subsystem.  With the pid in a cpu
\* cgroup and in no memory cgroup, cpu.shares is written with
\* max(CPU_SHARES_PER_CPU * cpus, MIN_CPU_SHARES), no memory file is
\* touched and the update succeeds; with the pid in a memory cgroup and in
\* no cpu cgroup the memory limits are written, cpu.shares is not, and the
\* update succeeds.  An error met while a cgroup is determined or a control
\* file is read or written fails the update and leaves the container
\* registered in its state, with no teardown started.
C35_SubsystemsIndependent ==
  [][\A i \in Ids \cap {last'.id}, r \in ResourceValues \cap {last'.arg} :
       /\ runs__update(i, r, "no memory cgroup")
          => /\ last'.res = "Nothing"
             /\ cmds' = IF r[1] # 0
                        THEN {<<"write cpu.shares", i,
                                Max((CPU_SHARES_PER_CPU * r[1]) \div 1000,
                                    MIN_CPU_SHARES)>>}
                        ELSE {}
             /\ r[1] # 0
                => cgroup'[i].shares
                     = Max((CPU_SHARES_PER_CPU * r[1]) \div 1000,
                           MIN_CPU_SHARES)
             /\ cgroup'[i].soft = cgroup[i].soft
             /\ cgroup'[i].limit = cgroup[i].limit
       /\ runs__update(i, r, "no cpu cgroup")
          => /\ last'.res = "Nothing"
             /\ \A c \in cmds' : c[1] # "write cpu.shares"
             /\ cgroup'[i].shares = cgroup[i].shares
             /\ r[2] # 0
                => /\ <<"write memory.soft_limit_in_bytes", i,
                        memoryLimit(r)>> \in cmds'
                   /\ cgroup'[i].soft = memoryLimit(r)
                   /\ cgroup'[i].limit = Max(cgroup[i].limit, memoryLimit(r))
       /\ \A e \in UpdateOutcomes :
            (runs__update(i, r, e) /\ errorMet(i, r, e))
            => /\ last'.res \notin {"Nothing", "pending"}
               /\ contains(i)'
               /\ containers_' = containers_
               /\ Container(i)'.state = Container(i).state
               /\ UNCHANGED <<termination, dtoks, status, aborted>>
               /\ \A c \in cmds' :
                    c[1] \in {"write cpu.shares",
                              "write memory.soft_limit_in_bytes",
                              "write memory.limit_in_bytes"}]_vars

\* An update asking for cpus and memory has just succeeded for a container
\* whose pid is in a cpu cgroup and in no memory cgroup: cpu.shares was the
\* one file written.
C35_Witness ==
  /\ last.op \in {"update", "_update"}
  /\ last.res = "Nothing"
  /\ last.id \in Ids
  /\ last.arg[1] # 0
  /\ last.arg[2] # 0
  /\ cmds = {<<"write cpu.shares", last.id, cpuShares(last.arg)>>}
  /\ cgroup[last.id].shares = cpuShares(last.arg)
  /\ cgroup[last.id].soft = InitialCgroup.soft

\* The step is a validation of request q that gave response p.
validated(q, p) ==
  /\ last'.op \in {"validate", "header::validate"}
  /\ last'.arg = <<q, p>>

\* The request names a media type of the validators in its Accept header
\* (validate) or accepts one of them (header::validate).
supported(o, q) ==
  IF o = "validate"
  THEN q.headers["Accept"] \in {"application/json", "application/x-protobuf"}
  ELSE q.accepts \cap {"application/json", "application/x-protobuf"} # {}

C39_ResourcesStoredFirst ==
  [][/\ \A i \in Ids \cap {last'.id}, r \in ResourceValues \cap {last'.arg} :
          (/\ last'.op = "update"
           /\ contains(i)
           /\ Container(i).state # "DESTROYING"
           /\ Container(i).resources # r
           /\ \E e \in UpdateOutcomes : update(i, r, e))
          => /\ contains(i)'
             /\ Container(i)'.resources = r
             /\ last'.res # "Nothing"
                => \/ last'.res = "pending"
                      /\ cmds' = {<<"docker inspect", i>>}
                   \/ Container(i).pid # 0
     /\ last'.op \in {"_update", "docker inspect failed"}
        => \A rid \in Rids : rec'[rid].resources = rec[rid].resources
     /\ (/\ last.op \in {"update", "_update", "docker inspect failed"}
         /\ last.res \notin {"Nothing", "pending"}
         /\ last'.op = "update"
         /\ last'.id = last.id
         /\ last'.arg = last.arg
         /\ last.id \in Ids
         /\ contains(last.id)
         /\ last.op = "update" \/ Container(last.id).resources = last.arg)
        => /\ last'.res = "Nothing"
           /\ cmds' = {}
           /\ UNCHANGED <<rec, updates, cgroup>>]_vars

\* An update has just failed in a cgroup write, or in its docker inspect,
\* and the record holds the resources it asked for, which the control files
\* do not show.
C39_Witness ==
  /\ last.op \in {"update", "docker inspect failed"}
  /\ last.res \notin {"Nothing", "pending"}
  /\ last.id \in Ids
  /\ contains(last.id)
  /\ Container(last.id).state # "DESTROYING"
  /\ Container(last.id).resources = last.arg
  /\ last.arg[1] # 0
  /\ cgroup[last.id].shares # cpuShares(last.arg)

\* C40: a recover that fails - on a duplicate pid or on a docker wait it
\* cannot launch - is not rolled back.  When the first executor's run was
\* recovered and the recover then failed on the second, the first
\* ContainerID is registered with a record in RUNNING whose status is set
\* and whose reaped callback is armed, the reap (and the docker wait, if its
\* pid was gone) of that run has been issued, and no Docker container was
\* stopped, whatever docker_kill_orphans says and whatever was listed.
C40_FailedRecoverKeepsRecovered ==
  (last.op = "_recover" /\ last.res # "ok")
  => LET state == last.arg[1]
         ps == last.arg[2]
         alive == last.arg[3]
         waitFails == last.arg[4]
         first == state[1]
         lost == first.pid \notin alive /\ ps[first.id].primary # "absent"
         recovered == /\ first.shape = "run"
                      /\ lost => /\ ps[first.id].primary = "running"
                                 /\ ps[first.id].executor
                                 /\ first.id \notin waitFails
     IN
     /\ \A c \in cmds : c[1] \notin {"docker stop", "docker stop executor"}
     /\ last.res \in {"Detected duplicate pid",
                      "Unable to launch docker wait on executor"}
     /\ recovered
        => /\ contains(first.id)
           /\ Container(first.id).state = "RUNNING"
           /\ owner[containers_[first.id]] = first.id
           /\ status[containers_[first.id]] = "set"
           /\ reapFut[containers_[first.id]] = "pending"
           /\ rcb[containers_[first.id]] = "pending"
           /\ IF lost
              THEN {<<"docker wait", first.id>>, <<"reap wait", first.id>>}
                     \subseteq cmds
              ELSE <<"reap", first.id, first.pid>> \in cmds

\* A recover told to kill orphans has failed on its second executor after
\* it had recovered the first, whose executor container Docker lists.
C40_Witness ==
  /\ last.op = "_recover"
  /\ last.res # "ok"
  /\ last.arg[5]
  /\ last.arg[1][1].shape = "run"
  /\ last.arg[2][last.arg[1][1].id].executor
  /\ contains(last.arg[1][1].id)
  /\ Container(last.arg[1][1].id).state = "RUNNING"
  /\ rcb[containers_[last.arg[1][1].id]] = "pending"


====
